---- MODULE Spec2Model ----
(***************************************************************************)
(* piook: On-Off-Keying decoder for the CliMET 433MHz weather station.     *)
(*                                                                         *)
(* The repository holds two versions of the decoder:                       *)
(*   "decoder"  - src/src/decoder.c                                        *)
(*   "part_003" - the decoder half of src/unnamed/part_003 (short-pulse    *)
(*                filter, inclusive timing windows, scan loop with <=)     *)
(* The variable `variant` says which one a behaviour runs.                 *)
(*                                                                         *)
(* Integer widths.  TLC's integers are 32 bit, so the 64-bit timestamps    *)
(* (unsigned long, LP64) are tuples of four 16-bit limbs, most significant *)
(* first, and the 32-bit `duration` (unsigned int) is a pair of limbs.     *)
(* size_t values other than SIZE_MAX stay far below 2^31 and are plain     *)
(* integers.  uint8_t values are integers kept in 0..255 by % 256.         *)
(***************************************************************************)
EXTENDS Integers, Sequences, FiniteSets, TLC

VARIABLES
    variant,        \* which version of the decoder runs
    duration,       \* handleEvent: static unsigned int duration
    lastTime,       \* handleEvent: static unsigned long lastTime
    prevPulse,      \* handleEvent: static enum PulseType prevPulse
    g_bitBuffer,    \* int g_bitBuffer[MAX_BIT_COUNT + 1]
    g_bitIndex,     \* size_t g_bitIndex
    file,           \* content of the output file (the line last written)
    ev,             \* the arguments of the last handleEvent call
    code,           \* what the last call classified its event as
    emitted,        \* the Readings the last call handed to the output code
    pre,            \* prevPulse, g_bitIndex and hist before the last call
    hist,           \* classifications since (and with) the last Noise event
    tapeId,         \* the transmission being received (0: none)
    tapePos,        \* number of its events already delivered
    ntapes,         \* transmissions begun so far
    arg,            \* the input of a function checked on its own
    ret,            \* what that function returned
    pc,             \* main: where the event loop stands
    g_keepRunning,  \* volatile sig_atomic_t g_keepRunning
    active,         \* activations of handleEvent entered and not yet returned
    queued,         \* edge events the kernel holds for the line, not yet read
    eintr,          \* 1 when a signal handler ran while main was blocked in the wait
    released,       \* calls of gpiod_line_release
    closed,         \* calls of gpiod_chip_close
    afterSignal     \* calls of handleEvent since g_keepRunning became 0

vars == <<variant, duration, lastTime, prevPulse, g_bitBuffer, g_bitIndex,
          file, ev, code, emitted, pre, hist, tapeId, tapePos, ntapes, arg, ret,
          pc, g_keepRunning, active, queued, eintr, released, closed,
          afterSignal>>

\* the variables of main and of the signal handler
mainVars == <<pc, g_keepRunning, active, queued, eintr, released, closed,
             afterSignal>>

-----------------------------------------------------------------------------
(* enum PulseType and the protocol constants *)

PULSE_NOISE == 0
PULSE_SHORT_OFF == 1
PULSE_LONG_OFF == 2
PULSE_ON == 3

MAX_BIT_COUNT == 128
EXPECTED_DATA_LEN == 5
PREAMBLE_LEN == 8
\* preambleSeq[j] is PREAMBLE_SEQ[j + 1]
PREAMBLE_SEQ == <<PULSE_SHORT_OFF, PULSE_SHORT_OFF, PULSE_SHORT_OFF, PULSE_SHORT_OFF,
                  PULSE_LONG_OFF, PULSE_SHORT_OFF, PULSE_LONG_OFF, PULSE_LONG_OFF>>

\* (size_t)-1
SIZE_MAX == -1

ON_PULSE_US == 1000
OFF_SHORT_PULSE_US == 500
OFF_LONG_PULSE_US == 1500
JITTER_WINDOW_US == 250
ON_PULSE_UPPER_US == ON_PULSE_US + JITTER_WINDOW_US
ON_PULSE_LOWER_US == ON_PULSE_US - JITTER_WINDOW_US
OFF_SHORT_PULSE_UPPER_US == OFF_SHORT_PULSE_US + JITTER_WINDOW_US
OFF_SHORT_PULSE_LOWER_US == OFF_SHORT_PULSE_US - JITTER_WINDOW_US
OFF_LONG_PULSE_UPPER_US == OFF_LONG_PULSE_US + JITTER_WINDOW_US
OFF_LONG_PULSE_LOWER_US == OFF_LONG_PULSE_US - JITTER_WINDOW_US

\* part_003: if(duration < 250) return;
SHORT_PULSE_FILTER_US == 250

-----------------------------------------------------------------------------
(* Fixed-width arithmetic *)

Limb == 2^16

\* a small non-negative integer as an unsigned long
U64(n) == <<0, 0, n \div Limb, n % Limb>>

\* a + b on unsigned long (wraps at 2^64)
Add64(a, b) ==
    LET s4 == a[4] + b[4]
        s3 == a[3] + b[3] + (s4 \div Limb)
        s2 == a[2] + b[2] + (s3 \div Limb)
        s1 == a[1] + b[1] + (s2 \div Limb)
    IN  <<s1 % Limb, s2 % Limb, s3 % Limb, s4 % Limb>>

\* a - b on unsigned long (wraps at 2^64)
Sub64(a, b) ==
    LET d4 == a[4] - b[4]
        d3 == a[3] - b[3] - (IF d4 < 0 THEN 1 ELSE 0)
        d2 == a[2] - b[2] - (IF d3 < 0 THEN 1 ELSE 0)
        d1 == a[1] - b[1] - (IF d2 < 0 THEN 1 ELSE 0)
    IN  <<d1 % Limb, d2 % Limb, d3 % Limb, d4 % Limb>>

\* (unsigned int)x of an unsigned long x: the low 32 bits
ToUInt(x) == <<x[3], x[4]>>

\* comparisons of an unsigned int d with a constant c < 2^16
UGt(d, c) == d[1] > 0 \/ d[2] > c
ULt(d, c) == d[1] = 0 /\ d[2] < c
UGe(d, c) == ~ULt(d, c)
ULe(d, c) == ~UGt(d, c)

\* bitwise operators on uint8_t
RECURSIVE BitXor(_, _)
BitXor(a, b) ==
    IF a = 0 THEN b
    ELSE IF b = 0 THEN a
    ELSE (((a % 2) + (b % 2)) % 2) + 2 * BitXor(a \div 2, b \div 2)

RECURSIVE BitOr(_, _)
BitOr(a, b) ==
    IF a = 0 THEN b
    ELSE IF b = 0 THEN a
    ELSE (IF (a % 2) + (b % 2) > 0 THEN 1 ELSE 0) + 2 * BitOr(a \div 2, b \div 2)

RECURSIVE BitAnd(_, _)
BitAnd(a, b) ==
    IF a = 0 \/ b = 0 THEN 0
    ELSE ((a % 2) * (b % 2)) + 2 * BitAnd(a \div 2, b \div 2)

-----------------------------------------------------------------------------
(* decodePulse *)

decodePulse_decoder(highLow, d) ==
    IF 0 = highLow
    THEN IF UGt(d, OFF_SHORT_PULSE_LOWER_US) /\ ULt(d, OFF_SHORT_PULSE_UPPER_US)
         THEN PULSE_SHORT_OFF
         ELSE IF UGt(d, OFF_LONG_PULSE_LOWER_US) /\ ULt(d, OFF_LONG_PULSE_UPPER_US)
         THEN PULSE_LONG_OFF
         ELSE PULSE_NOISE
    ELSE IF UGt(d, ON_PULSE_LOWER_US) /\ ULt(d, ON_PULSE_UPPER_US)
         THEN PULSE_ON
         ELSE PULSE_NOISE

\* decodePulse of part_003 with the upper comparisons written < instead of <=
decodePulse_part003_halfOpen(highLow, d) ==
    IF 0 = highLow
    THEN IF UGe(d, OFF_SHORT_PULSE_LOWER_US) /\ ULt(d, OFF_SHORT_PULSE_UPPER_US)
         THEN PULSE_SHORT_OFF
         ELSE IF UGe(d, OFF_LONG_PULSE_LOWER_US) /\ ULt(d, OFF_LONG_PULSE_UPPER_US)
         THEN PULSE_LONG_OFF
         ELSE PULSE_NOISE
    ELSE IF UGe(d, ON_PULSE_LOWER_US) /\ ULt(d, ON_PULSE_UPPER_US)
         THEN PULSE_ON
         ELSE PULSE_NOISE

decodePulse_part003(highLow, d) ==
    IF 0 = highLow
    THEN IF UGe(d, OFF_SHORT_PULSE_LOWER_US) /\ ULe(d, OFF_SHORT_PULSE_UPPER_US)
         THEN PULSE_SHORT_OFF
         ELSE IF UGe(d, OFF_LONG_PULSE_LOWER_US) /\ ULe(d, OFF_LONG_PULSE_UPPER_US)
         THEN PULSE_LONG_OFF
         ELSE PULSE_NOISE
    ELSE IF UGe(d, ON_PULSE_LOWER_US) /\ ULe(d, ON_PULSE_UPPER_US)
         THEN PULSE_ON
         ELSE PULSE_NOISE

-----------------------------------------------------------------------------
(* scanForPreamble *)

\* decoder.c: for(; j < PREAMBLE_LEN && g_bitBuffer[j + i] == preambleSeq[j]; j++)
RECURSIVE matchLoop_decoder(_, _, _)
matchLoop_decoder(buf, i, j) ==
    IF j < PREAMBLE_LEN /\ buf[j + i] = PREAMBLE_SEQ[j + 1]
    THEN matchLoop_decoder(buf, i, j + 1)
    ELSE j

\* the scan of decoder.c begun at i = 1
scanForPreamble_decoder_fromOne(buf, idx) ==
    IF idx < PREAMBLE_LEN THEN SIZE_MAX
    ELSE LET hits == {i \in 1..(idx - PREAMBLE_LEN - 1) :
                         PREAMBLE_LEN = matchLoop_decoder(buf, i, 0)}
         IN  IF hits = {} THEN SIZE_MAX
             ELSE CHOOSE i \in hits : \A k \in hits : i <= k

\* the scan of decoder.c trying every offset below g_bitIndex
scanLoop_decoder_toEnd(buf, idx) ==
    {i \in 0..(idx - 1) : PREAMBLE_LEN = matchLoop_decoder(buf, i, 0)}

\* decoder.c: for(size_t i = 0; i < g_bitIndex - PREAMBLE_LEN; i++): the
\* values of i at which the loop body would return i
scanLoop_decoder(buf, idx) ==
    {i \in 0..(idx - PREAMBLE_LEN - 1) : PREAMBLE_LEN = matchLoop_decoder(buf, i, 0)}

\* i ascends, so the loop returns the least of them
scanForPreamble_decoder(buf, idx) ==
    IF idx < PREAMBLE_LEN THEN SIZE_MAX
    ELSE LET hits == scanLoop_decoder(buf, idx)
         IN  IF hits = {} THEN SIZE_MAX
             ELSE CHOOSE i \in hits : \A k \in hits : i <= k

\* part_003: for(; j < PREAMBLE_LEN; j++) if (g_bitBuffer[i + j] != preambleSeq[j]) break;
RECURSIVE matchLoop_part003(_, _, _)
matchLoop_part003(buf, i, j) ==
    IF j < PREAMBLE_LEN
    THEN IF buf[i + j] # PREAMBLE_SEQ[j + 1] THEN j
         ELSE matchLoop_part003(buf, i, j + 1)
    ELSE j

\* the scan of part_003 without the quick check of the first element
scanLoop_part003_skipsFirst(buf, maxStart) ==
    {i \in 0..maxStart : matchLoop_part003(buf, i, 1) = PREAMBLE_LEN}

\* part_003: for(size_t i = 0; i <= maxStart; i++): the values of i at which
\* the loop body would return i
scanLoop_part003(buf, maxStart) ==
    {i \in 0..maxStart :
        /\ buf[i] = PREAMBLE_SEQ[1]
        /\ matchLoop_part003(buf, i, 1) = PREAMBLE_LEN}

\* the scan of part_003 returning the highest matching offset
scanForPreamble_part003_lastMatch(buf, idx) ==
    IF idx < PREAMBLE_LEN THEN SIZE_MAX
    ELSE LET hits == scanLoop_part003(buf, idx - PREAMBLE_LEN)
         IN  IF hits = {} THEN SIZE_MAX
             ELSE CHOOSE i \in hits : \A k \in hits : i >= k

scanForPreamble_part003(buf, idx) ==
    IF idx < PREAMBLE_LEN THEN SIZE_MAX
    ELSE LET hits == scanLoop_part003(buf, idx - PREAMBLE_LEN)
         IN  IF hits = {} THEN SIZE_MAX
             ELSE CHOOSE i \in hits : \A k \in hits : i <= k

-----------------------------------------------------------------------------
(* crc8 *)

\* the bit loop of decoder.c's crc8 with the polynomial never mixed in
RECURSIVE crcByte_decoder_noPoly(_, _, _)
crcByte_decoder_noPoly(crc, inbyte, i) ==
    IF i = 0 THEN crc
    ELSE crcByte_decoder_noPoly((crc * 2) % 256, (inbyte * 2) % 256, i - 1)

\* decoder.c: for (i = 8; i; i--) { mix; crc <<= 1; if (mix) crc ^= 0x31; inbyte <<= 1; }
RECURSIVE crcByte_decoder(_, _, _)
crcByte_decoder(crc, inbyte, i) ==
    IF i = 0 THEN crc
    ELSE IF BitAnd(BitXor(crc, inbyte), 128) # 0                       \* mix
         THEN crcByte_decoder(BitXor((crc * 2) % 256, 49), (inbyte * 2) % 256, i - 1)
         ELSE crcByte_decoder((crc * 2) % 256, (inbyte * 2) % 256, i - 1)

\* addr is indexed from 0; k is the number of bytes already consumed
RECURSIVE crcLoop_decoder(_, _, _, _)
crcLoop_decoder(addr, len, k, crc) ==
    IF k = len THEN crc
    ELSE crcLoop_decoder(addr, len, k + 1, crcByte_decoder(crc, addr[k], 8))

crc8_decoder(addr, len) == crcLoop_decoder(addr, len, 0, 0)

\* part_003: for (bit = 0; bit < 8; ++bit) { msb_diff; crc <<= 1; if (msb_diff) crc ^= POLY; byte <<= 1; }
RECURSIVE crcByte_part003(_, _, _)
crcByte_part003(crc, byte, bit) ==
    IF bit < 8
    THEN IF BitAnd(BitXor(crc, byte), 128) # 0                          \* msb_diff
         THEN crcByte_part003(BitXor((crc * 2) % 256, 49), (byte * 2) % 256, bit + 1)
         ELSE crcByte_part003((crc * 2) % 256, (byte * 2) % 256, bit + 1)
    ELSE crc

RECURSIVE crcLoop_part003(_, _, _, _)
crcLoop_part003(data, len, k, crc) ==
    IF len - k > 0
    THEN crcLoop_part003(data, len, k + 1, crcByte_part003(crc, data[k], 0))
    ELSE crc

crc8_part003(data, len) == crcLoop_part003(data, len, 0, 0)

-----------------------------------------------------------------------------
(* processSequence *)

\* the line with the temperature printed to one decimal ("%.1f,%d\n")
formatLine_oneDecimal(tempInt, rh) ==
    LET mag == IF tempInt < 0 THEN 0 - tempInt ELSE tempInt
    IN  [neg |-> tempInt < 0, whole |-> mag \div 10, frac |-> <<mag % 10>>, rh |-> rh]

\* what fprintf(f, "%3.2f,%d\n", tempCelsius, rh) writes for
\* tempCelsius = tempInt * 0.1f: the float nearest to tempInt/10 is within
\* 2^-16 of it for |tempInt| <= 2047, so two decimals print the tenths
\* digit and then a 0; the field width 3 never pads ("0.00" has 4 characters)
formatLine(tempInt, rh) ==
    LET mag == IF tempInt < 0 THEN 0 - tempInt ELSE tempInt
    IN  [neg |-> tempInt < 0, whole |-> mag \div 10, frac |-> <<mag % 10, 0>>, rh |-> rh]

\* the output file before the first successful fopen/fprintf/fclose
NoFile == <<>>

\* decodeFields with the magnitude taken from all four low bits of data[1]
decodeFields_fullNibble(data) ==
    LET raw == (BitAnd(data[1], 15) * 256) + data[2]
        tempInt == IF BitAnd(data[1], 8) # 0 THEN raw * (0 - 1) ELSE raw
    IN  [tempInt |-> tempInt, rh |-> data[3]]

\* decodeFields with the humidity held to 100
decodeFields_clampedRh(data) ==
    LET raw == (BitAnd(data[1], 7) * 256) + data[2]
        tempInt == IF BitAnd(data[1], 8) # 0 THEN raw * (0 - 1) ELSE raw
    IN  [tempInt |-> tempInt, rh |-> IF data[3] > 100 THEN 100 ELSE data[3]]

\* decodeFields with the sign read from bit 4 of data[1]
decodeFields_signBit4(data) ==
    LET raw == (BitAnd(data[1], 7) * 256) + data[2]
        tempInt == IF BitAnd(data[1], 16) # 0 THEN raw * (0 - 1) ELSE raw
    IN  [tempInt |-> tempInt, rh |-> data[3]]

\* decodeFields with the sign flag of the temperature left out
decodeFields_unsigned(data) ==
    [tempInt |-> (BitAnd(data[1], 7) * 256) + data[2], rh |-> data[3]]

\* lines 262-271 of processSequence: the fields of the Reading, temperature in tenths
decodeFields(data) ==
    LET raw == (BitAnd(data[1], 7) * 256) + data[2]
        tempInt == IF BitAnd(data[1], 8) # 0 THEN raw * (0 - 1) ELSE raw
    IN  [tempInt |-> tempInt, rh |-> data[3]]

\* the output code opening the file for appending
writeOutput_appends(r, fopenOk, oldFile) ==
    IF fopenOk THEN Append(oldFile, formatLine(r.tempInt, r.rh)) ELSE oldFile

\* lines 273-290: fopen(g_outputFilename, "w") may fail; g_outputFilename is
\* never NULL once parseOptions has returned
writeOutput(r, fopenOk, oldFile) ==
    IF fopenOk THEN <<formatLine(r.tempInt, r.rh)>> ELSE oldFile

\* decoder.c: the inner loop of the assembler, b += mask; mask = mask >> 1
RECURSIVE foldByte_decoder(_, _, _, _, _)
foldByte_decoder(buf, idx, j, mask, b) ==
    IF j < 8
    THEN foldByte_decoder(buf, idx + 1, j + 1, mask \div 2,
                          IF PULSE_SHORT_OFF = buf[idx] THEN (b + mask) % 256 ELSE b)
    ELSE b

\* the assembler of decoder.c with idx set back to the start for every byte
assemble_decoder_noAdvance(buf, preambleIdx, dataLen) ==
    [i \in 0..(dataLen - 1) |-> foldByte_decoder(buf, preambleIdx, 0, 128, 0)]

assemble_decoder(buf, preambleIdx, dataLen) ==
    [i \in 0..(dataLen - 1) |-> foldByte_decoder(buf, preambleIdx + (8 * i), 0, 128, 0)]

\* the result of processSequence: the Readings handed to the output code and the file
Rejected(oldFile) == [emitted |-> <<>>, file |-> oldFile]

\* processSequence of decoder.c with the checksum comparison left out
processSequence_decoder_unchecked(buf, idx, preambleIdx, fopenOk, oldFile) ==
    IF idx < preambleIdx THEN Rejected(oldFile)
    ELSE LET bitLen == idx - preambleIdx
             dataLen == bitLen \div 8
         IN  IF bitLen % 8 # 0 THEN Rejected(oldFile)
             ELSE IF dataLen # EXPECTED_DATA_LEN THEN Rejected(oldFile)
             ELSE LET r == decodeFields(assemble_decoder(buf, preambleIdx, dataLen))
                  IN  [emitted |-> <<r>>, file |-> writeOutput(r, fopenOk, oldFile)]

processSequence_decoder(buf, idx, preambleIdx, fopenOk, oldFile) ==
    \* size_t bitLen = g_bitIndex - preambleIdx: a wrapped difference is at
    \* least 2^64 - 132, so dataLen != EXPECTED_DATA_LEN
    IF idx < preambleIdx THEN Rejected(oldFile)
    ELSE LET bitLen == idx - preambleIdx
             dataLen == bitLen \div 8
         IN  IF bitLen % 8 # 0 THEN Rejected(oldFile)
             ELSE IF dataLen # EXPECTED_DATA_LEN THEN Rejected(oldFile)
             ELSE LET data == assemble_decoder(buf, preambleIdx, dataLen)
                      checksum == crc8_decoder(data, 4)
                  IN  IF checksum # data[4] THEN Rejected(oldFile)
                      ELSE LET r == decodeFields(data)
                           IN  [emitted |-> <<r>>,
                                file |-> writeOutput(r, fopenOk, oldFile)]

\* part_003: for(int bit = 7; bit >= 0; bit--) b |= (buf[idx++] == PULSE_SHORT_OFF) ? (1 << bit) : 0
RECURSIVE foldByte_part003(_, _, _, _)
foldByte_part003(buf, idx, bit, b) ==
    IF bit >= 0
    THEN foldByte_part003(buf, idx + 1, bit - 1,
                          BitOr(b, IF buf[idx] = PULSE_SHORT_OFF THEN 2 ^ bit ELSE 0))
    ELSE b

assemble_part003(buf, preambleIdx, dataLen) ==
    [i \in 0..(dataLen - 1) |-> foldByte_part003(buf, preambleIdx + (8 * i), 7, 0)]

\* processSequence of part_003 comparing only the low nibbles of the checksum
processSequence_part003_lowNibbleCrc(buf, idx, preambleIdx, fopenOk, oldFile) ==
    IF idx < preambleIdx THEN Rejected(oldFile)
    ELSE LET bitLen == idx - preambleIdx
             dataLen == bitLen \div 8
         IN  IF bitLen % 8 # 0 THEN Rejected(oldFile)
             ELSE IF dataLen # EXPECTED_DATA_LEN THEN Rejected(oldFile)
             ELSE LET data == assemble_part003(buf, preambleIdx, dataLen)
                      checksum == crc8_part003(data, 4)
                  IN  IF (checksum % 16) # (data[4] % 16) THEN Rejected(oldFile)
                      ELSE LET r == decodeFields(data)
                           IN  [emitted |-> <<r>>,
                                file |-> writeOutput(r, fopenOk, oldFile)]

processSequence_part003(buf, idx, preambleIdx, fopenOk, oldFile) ==
    IF idx < preambleIdx THEN Rejected(oldFile)
    ELSE LET bitLen == idx - preambleIdx
             dataLen == bitLen \div 8
         IN  IF bitLen % 8 # 0 THEN Rejected(oldFile)
             ELSE IF dataLen # EXPECTED_DATA_LEN THEN Rejected(oldFile)
             ELSE LET data == assemble_part003(buf, preambleIdx, dataLen)
                      checksum == crc8_part003(data, 4)
                  IN  IF checksum # data[4] THEN Rejected(oldFile)
                      ELSE LET r == decodeFields(data)
                           IN  [emitted |-> <<r>>,
                                file |-> writeOutput(r, fopenOk, oldFile)]

-----------------------------------------------------------------------------
(* handleEvent *)

\* the event was dropped by the short-pulse filter before decodePulse ran
NO_CODE == PULSE_ON + 1

\* the statics and globals handleEvent works on
DecoderState ==
    [duration |-> duration, lastTime |-> lastTime, prevPulse |-> prevPulse,
     g_bitBuffer |-> g_bitBuffer, g_bitIndex |-> g_bitIndex, file |-> file]

\* the noise branch of decoder.c without g_bitIndex = 0
noiseBranch_decoder_keepsBuffer(st, fopenOk) ==
    LET out == IF st.g_bitIndex # 0
               THEN LET preambleIdx == scanForPreamble_decoder(st.g_bitBuffer, st.g_bitIndex)
                    IN  IF SIZE_MAX # preambleIdx
                        THEN processSequence_decoder(st.g_bitBuffer, st.g_bitIndex,
                                                     preambleIdx + 4, fopenOk, st.file)
                        ELSE Rejected(st.file)
               ELSE Rejected(st.file)
    IN  [st EXCEPT !.prevPulse = PULSE_NOISE, !.file = out.file]
            @@ [code |-> PULSE_NOISE, emitted |-> out.emitted]

\* decoder.c lines 89-104: the branch taken when the event is Noise
noiseBranch_decoder(st, fopenOk) ==
    LET out == IF st.g_bitIndex # 0
               THEN LET preambleIdx == scanForPreamble_decoder(st.g_bitBuffer, st.g_bitIndex)
                    IN  IF SIZE_MAX # preambleIdx
                        THEN processSequence_decoder(st.g_bitBuffer, st.g_bitIndex,
                                                     preambleIdx + 4, fopenOk, st.file)
                        ELSE Rejected(st.file)
               ELSE Rejected(st.file)
    IN  [st EXCEPT !.g_bitIndex = 0, !.prevPulse = PULSE_NOISE, !.file = out.file]
            @@ [code |-> PULSE_NOISE, emitted |-> out.emitted]

\* the pulse branch of decoder.c without the test that ignores On after On
pulseBranch_decoder_storesOn(st, c) ==
    IF PULSE_ON = st.prevPulse
    THEN IF st.g_bitIndex >= MAX_BIT_COUNT
         THEN [st EXCEPT !.g_bitIndex = 0]
         ELSE [st EXCEPT !.g_bitBuffer = [@ EXCEPT ![st.g_bitIndex] = c],
                         !.g_bitIndex = @ + 1,
                         !.prevPulse = c]
    ELSE [st EXCEPT !.prevPulse = c]

\* the pulse branch of decoder.c returning on a full buffer without resetting it
pulseBranch_decoder_keepsFull(st, c) ==
    IF PULSE_ON = st.prevPulse
    THEN IF PULSE_ON = c
         THEN st
         ELSE IF st.g_bitIndex >= MAX_BIT_COUNT
         THEN st
         ELSE [st EXCEPT !.g_bitBuffer = [@ EXCEPT ![st.g_bitIndex] = c],
                         !.g_bitIndex = @ + 1,
                         !.prevPulse = c]
    ELSE [st EXCEPT !.prevPulse = c]

\* the pulse branch of decoder.c storing the dropped Off in prevPulse when
\* it resets a full buffer
pulseBranch_decoder_overflowSetsPrev(st, c) ==
    IF PULSE_ON = st.prevPulse
    THEN IF PULSE_ON = c
         THEN st
         ELSE IF st.g_bitIndex >= MAX_BIT_COUNT
         THEN [st EXCEPT !.g_bitIndex = 0, !.prevPulse = c]
         ELSE [st EXCEPT !.g_bitBuffer = [@ EXCEPT ![st.g_bitIndex] = c],
                         !.g_bitIndex = @ + 1,
                         !.prevPulse = c]
    ELSE [st EXCEPT !.prevPulse = c]

\* decoder.c lines 106-132: the event is On, ShortOff or LongOff
pulseBranch_decoder(st, c) ==
    IF PULSE_ON = st.prevPulse
    THEN IF PULSE_ON = c
         THEN st
         ELSE IF st.g_bitIndex >= MAX_BIT_COUNT
         THEN [st EXCEPT !.g_bitIndex = 0]
         ELSE [st EXCEPT !.g_bitBuffer = [@ EXCEPT ![st.g_bitIndex] = c],
                         !.g_bitIndex = @ + 1,
                         !.prevPulse = c]
    ELSE [st EXCEPT !.prevPulse = c]

handleEvent_decoder(st, highLow, timeMicros, fopenOk) ==
    LET time == timeMicros
        d == ToUInt(Sub64(time, st.lastTime))
        st1 == [st EXCEPT !.duration = d, !.lastTime = time]
        c == decodePulse_decoder(highLow, d)
    IN  IF PULSE_NOISE = c
        THEN noiseBranch_decoder(st1, fopenOk)
        ELSE pulseBranch_decoder(st1, c) @@ [code |-> c, emitted |-> <<>>]

\* the noise branch of part_003 leaving the buffer as it is when fopen fails
noiseBranch_part003_keepsOnFailure(st, fopenOk) ==
    LET out == IF st.g_bitIndex # 0
               THEN LET preambleIdx == scanForPreamble_part003(st.g_bitBuffer, st.g_bitIndex)
                    IN  IF SIZE_MAX # preambleIdx
                        THEN processSequence_part003(st.g_bitBuffer, st.g_bitIndex,
                                                     preambleIdx + 4, fopenOk, st.file)
                        ELSE Rejected(st.file)
               ELSE Rejected(st.file)
    IN  [st EXCEPT !.g_bitIndex = IF fopenOk THEN 0 ELSE @,
                   !.prevPulse = PULSE_NOISE, !.file = out.file]
            @@ [code |-> PULSE_NOISE, emitted |-> out.emitted]

\* part_003 lines 349-364
noiseBranch_part003(st, fopenOk) ==
    LET out == IF st.g_bitIndex # 0
               THEN LET preambleIdx == scanForPreamble_part003(st.g_bitBuffer, st.g_bitIndex)
                    IN  IF SIZE_MAX # preambleIdx
                        THEN processSequence_part003(st.g_bitBuffer, st.g_bitIndex,
                                                     preambleIdx + 4, fopenOk, st.file)
                        ELSE Rejected(st.file)
               ELSE Rejected(st.file)
    IN  [st EXCEPT !.g_bitIndex = 0, !.prevPulse = PULSE_NOISE, !.file = out.file]
            @@ [code |-> PULSE_NOISE, emitted |-> out.emitted]

\* the pulse branch of part_003 with the bounds test written > instead of >=
pulseBranch_part003_offByOne(st, c) ==
    IF PULSE_ON = st.prevPulse
    THEN IF PULSE_ON = c
         THEN st
         ELSE IF st.g_bitIndex > MAX_BIT_COUNT
         THEN [st EXCEPT !.g_bitIndex = 0]
         ELSE [st EXCEPT !.g_bitBuffer = [@ EXCEPT ![st.g_bitIndex] = c],
                         !.g_bitIndex = @ + 1,
                         !.prevPulse = c]
    ELSE [st EXCEPT !.prevPulse = c]

\* the pulse branch of part_003 treating On after On as a loss of sync
pulseBranch_part003_resetsOnDoubleOn(st, c) ==
    IF PULSE_ON = st.prevPulse
    THEN IF PULSE_ON = c
         THEN [st EXCEPT !.g_bitIndex = 0]
         ELSE IF st.g_bitIndex >= MAX_BIT_COUNT
         THEN [st EXCEPT !.g_bitIndex = 0]
         ELSE [st EXCEPT !.g_bitBuffer = [@ EXCEPT ![st.g_bitIndex] = c],
                         !.g_bitIndex = @ + 1,
                         !.prevPulse = c]
    ELSE [st EXCEPT !.prevPulse = c]

\* the pulse branch of part_003 returning on a full buffer without resetting it
pulseBranch_part003_keepsFull(st, c) ==
    IF PULSE_ON = st.prevPulse
    THEN IF PULSE_ON = c
         THEN st
         ELSE IF st.g_bitIndex >= MAX_BIT_COUNT
         THEN st
         ELSE [st EXCEPT !.g_bitBuffer = [@ EXCEPT ![st.g_bitIndex] = c],
                         !.g_bitIndex = @ + 1,
                         !.prevPulse = c]
    ELSE [st EXCEPT !.prevPulse = c]

\* part_003 lines 366-392
pulseBranch_part003(st, c) ==
    IF PULSE_ON = st.prevPulse
    THEN IF PULSE_ON = c
         THEN st
         ELSE IF st.g_bitIndex >= MAX_BIT_COUNT
         THEN [st EXCEPT !.g_bitIndex = 0]
         ELSE [st EXCEPT !.g_bitBuffer = [@ EXCEPT ![st.g_bitIndex] = c],
                         !.g_bitIndex = @ + 1,
                         !.prevPulse = c]
    ELSE [st EXCEPT !.prevPulse = c]

\* handleEvent of part_003 with the short-pulse filter returning before
\* lastTime is stored
handleEvent_part003_filterFirst(st, highLow, timeMicros, fopenOk) ==
    LET time == timeMicros
        d == ToUInt(Sub64(time, st.lastTime))
        st1 == [st EXCEPT !.duration = d, !.lastTime = time]
    IN  IF ULt(d, SHORT_PULSE_FILTER_US)
        THEN [st EXCEPT !.duration = d] @@ [code |-> NO_CODE, emitted |-> <<>>]
        ELSE LET c == decodePulse_part003(highLow, d)
             IN  IF PULSE_NOISE = c
                 THEN noiseBranch_part003(st1, fopenOk)
                 ELSE pulseBranch_part003(st1, c) @@ [code |-> c, emitted |-> <<>>]

\* handleEvent of part_003 without the short-pulse filter: a duration below
\* 250 goes on to decodePulse, which makes it Noise
handleEvent_part003_noFilter(st, highLow, timeMicros, fopenOk) ==
    LET time == timeMicros
        d == ToUInt(Sub64(time, st.lastTime))
        st1 == [st EXCEPT !.duration = d, !.lastTime = time]
        c == decodePulse_part003(highLow, d)
    IN  IF PULSE_NOISE = c
        THEN noiseBranch_part003(st1, fopenOk)
        ELSE pulseBranch_part003(st1, c) @@ [code |-> c, emitted |-> <<>>]

handleEvent_part003(st, highLow, timeMicros, fopenOk) ==
    LET time == timeMicros
        d == ToUInt(Sub64(time, st.lastTime))
        st1 == [st EXCEPT !.duration = d, !.lastTime = time]
    IN  IF ULt(d, SHORT_PULSE_FILTER_US)
        THEN st1 @@ [code |-> NO_CODE, emitted |-> <<>>]
        ELSE LET c == decodePulse_part003(highLow, d)
             IN  IF PULSE_NOISE = c
                 THEN noiseBranch_part003(st1, fopenOk)
                 ELSE pulseBranch_part003(st1, c) @@ [code |-> c, emitted |-> <<>>]

decodePulse(v, highLow, d) ==
    IF v = "decoder" THEN decodePulse_decoder(highLow, d) ELSE decodePulse_part003(highLow, d)

scanForPreamble(v, buf, idx) ==
    IF v = "decoder" THEN scanForPreamble_decoder(buf, idx)
    ELSE scanForPreamble_part003(buf, idx)

crc8(v, data, len) ==
    IF v = "decoder" THEN crc8_decoder(data, len) ELSE crc8_part003(data, len)

handleEvent(v, st, highLow, timeMicros, fopenOk) ==
    IF v = "decoder"
    THEN handleEvent_decoder(st, highLow, timeMicros, fopenOk)
    ELSE handleEvent_part003(st, highLow, timeMicros, fopenOk)

\* one call handleEvent(highLow, timeMicros) from the event loop
Deliver(highLow, timeMicros) ==
    \E fopenOk \in BOOLEAN :
        LET r == handleEvent(variant, DecoderState, highLow, timeMicros, fopenOk)
        IN  /\ duration' = r.duration
            /\ lastTime' = r.lastTime
            /\ prevPulse' = r.prevPulse
            /\ g_bitBuffer' = r.g_bitBuffer
            /\ g_bitIndex' = r.g_bitIndex
            /\ file' = r.file
            /\ ev' = [highLow |-> highLow, timeMicros |-> timeMicros]
            /\ code' = r.code
            /\ emitted' = r.emitted
            /\ pre' = [prevPulse |-> prevPulse, g_bitIndex |-> g_bitIndex, hist |-> hist]
            /\ hist' = IF r.code = PULSE_NOISE THEN <<PULSE_NOISE>>
                       ELSE Append(hist, r.code)
            /\ UNCHANGED <<variant, arg, ret>>

-----------------------------------------------------------------------------
(* The GPIO line: the edge events the event loop of main hands to handleEvent *)

\* bounds of the model
MaxFree == 4          \* arbitrary events before the first transmission
MaxTapes == 1         \* transmissions per behaviour
Period == 500000      \* microseconds between the starts of transmissions
NoiseGap == 5000      \* the silence that ends a transmission
GlitchGap == 100      \* a spurious edge

Variants == {"decoder", "part_003"}

OnEv == [highLow |-> 1, gap |-> ON_PULSE_US]
OffEv(sym) == [highLow |-> 0,
               gap |-> IF sym = PULSE_SHORT_OFF THEN OFF_SHORT_PULSE_US ELSE OFF_LONG_PULSE_US]
NoiseEv == [highLow |-> 1, gap |-> NoiseGap]
GlitchEv == [highLow |-> 0, gap |-> GlitchGap]

\* the wire encoding: most significant bit of each byte first, 1 as a short
\* off pulse, 0 as a long one
Encode(bytes) ==
    [k \in 1..(8 * Len(bytes)) |->
        IF (bytes[((k - 1) \div 8) + 1] \div (2 ^ (7 - ((k - 1) % 8)))) % 2 = 1
        THEN PULSE_SHORT_OFF ELSE PULSE_LONG_OFF]

\* an (On, Off) event pair per symbol
Pulses(syms) ==
    [k \in 1..(2 * Len(syms)) |-> IF k % 2 = 1 THEN OnEv ELSE OffEv(syms[k \div 2])]

Repeat(sym, n) == [k \in 1..n |-> sym]

\* four data bytes followed by their checksum
WithCrc(d) == d \o <<crc8_decoder([i \in 0..3 |-> d[i + 1]], 4)>>

\* a transmission: the first half of the preamble, then five bytes whose
\* first nibble is the second half of the preamble (0100)
Transmission(bytes) == SubSeq(PREAMBLE_SEQ, 1, 4) \o Encode(bytes)

FrameA == WithCrc(<<74, 1, 10, 90>>)       \* 26.6 degrees, 90 %
FrameB == WithCrc(<<69, 159, 255, 200>>)   \* -204.7 degrees, 200 %
FrameBad == <<74, 1, 10, 90, BitXor(FrameA[5], 1)>>
FrameNoPre == WithCrc(<<165, 1, 10, 90>>)

TxA == Pulses(Transmission(FrameA))

\* all eight preamble symbols and then the 40 symbols of five bytes, ended
\* by a Noise event
PreambleThenBytes(bytes) == Pulses(PREAMBLE_SEQ \o Encode(bytes)) \o <<NoiseEv>>

\* frames whose byte1 is 0x81 and 0x89: 26.6 and -26.6 degrees, 90 %
FramePos == WithCrc(<<74, 129, 10, 90>>)
FrameNeg == WithCrc(<<74, 137, 10, 90>>)

Tapes ==
    << TxA \o <<NoiseEv>>,
       Pulses(Transmission(FrameB)) \o <<NoiseEv>>,
       Pulses(Transmission(FrameBad)) \o <<NoiseEv>>,
       Pulses(Transmission(FrameA) \o <<PULSE_SHORT_OFF>>) \o <<NoiseEv>>,
       Pulses(Transmission(FrameA) \o Repeat(PULSE_LONG_OFF, 8)) \o <<NoiseEv>>,
       Pulses(<<PULSE_LONG_OFF, PULSE_LONG_OFF, PULSE_SHORT_OFF>> \o Transmission(FrameA))
           \o <<NoiseEv>>,
       Pulses(Transmission(FrameNoPre)) \o <<NoiseEv>>,
       Pulses(Repeat(PULSE_LONG_OFF, MAX_BIT_COUNT + 1)) \o TxA \o <<NoiseEv>>,
       Pulses(Repeat(PULSE_LONG_OFF, MAX_BIT_COUNT + 2)) \o <<NoiseEv>>,
       SubSeq(TxA, 1, 41) \o <<OnEv>> \o SubSeq(TxA, 42, Len(TxA)) \o <<NoiseEv>>,
       SubSeq(TxA, 1, 40) \o <<OffEv(PULSE_SHORT_OFF)>> \o SubSeq(TxA, 41, Len(TxA))
           \o <<NoiseEv>>,
       SubSeq(TxA, 1, 40) \o <<GlitchEv>> \o SubSeq(TxA, 41, Len(TxA)) \o <<NoiseEv>>,
       Pulses(PREAMBLE_SEQ) \o <<NoiseEv>>,
       Pulses(Transmission(FrameBad)) \o <<NoiseEv>> \o TxA \o <<NoiseEv, NoiseEv>>,
       Pulses(Repeat(PULSE_LONG_OFF, MAX_BIT_COUNT)) \o <<NoiseEv>>,
       Pulses(Repeat(PULSE_LONG_OFF, MAX_BIT_COUNT - 44) \o Transmission(FrameA))
           \o <<NoiseEv>>,
       Pulses(Repeat(PULSE_LONG_OFF, MAX_BIT_COUNT + 1))
           \o <<OffEv(PULSE_SHORT_OFF), OnEv, OffEv(PULSE_LONG_OFF), NoiseEv>>,
       Pulses(Repeat(PULSE_LONG_OFF, MAX_BIT_COUNT))
           \o <<OnEv, OnEv, OffEv(PULSE_SHORT_OFF), NoiseEv>>,
       Pulses(Repeat(PULSE_LONG_OFF, MAX_BIT_COUNT - 44) \o Transmission(FrameA))
           \o <<OnEv, OffEv(PULSE_SHORT_OFF), NoiseEv>>,
       PreambleThenBytes(WithCrc(<<129, 10, 90, 35>>)),
       PreambleThenBytes(WithCrc(<<137, 10, 90, 35>>)),
       Pulses(Transmission(FramePos)) \o <<NoiseEv>>,
       Pulses(Transmission(FrameNeg)) \o <<NoiseEv>>
    >>

\* the events a free-running line delivers before the first transmission
FreeEvents ==
    {OnEv, OffEv(PULSE_SHORT_OFF), OffEv(PULSE_LONG_OFF), GlitchEv,
     [highLow |-> 1, gap |-> GlitchGap], NoiseEv, [highLow |-> 0, gap |-> NoiseGap]}

Init ==
    /\ variant \in Variants
    /\ duration = <<0, 0>>
    /\ lastTime = U64(0)
    /\ prevPulse = PULSE_NOISE
    /\ g_bitBuffer = [k \in 0..MAX_BIT_COUNT |-> 0]
    /\ g_bitIndex = 0
    /\ file = NoFile
    /\ ev = [highLow |-> 0, timeMicros |-> U64(0)]
    /\ code = NO_CODE
    /\ emitted = <<>>
    /\ pre = [prevPulse |-> PULSE_NOISE, g_bitIndex |-> 0, hist |-> <<>>]
    /\ hist = <<>>
    /\ tapeId = 0
    /\ tapePos = 0
    /\ ntapes = 0
    /\ pc = "check"
    /\ g_keepRunning = 1
    /\ active = 0
    /\ queued = 0
    /\ eintr = 0
    /\ released = 0
    /\ closed = 0
    /\ afterSignal = 0
    /\ arg = <<>>
    /\ ret = <<>>

\* an arbitrary edge before the first transmission
FreeEvent ==
    /\ ntapes = 0
    /\ tapePos < MaxFree
    /\ \E e \in FreeEvents : Deliver(e.highLow, Add64(lastTime, U64(e.gap)))
    /\ tapePos' = tapePos + 1
    /\ UNCHANGED <<tapeId, ntapes, mainVars>>

\* the first edge of a transmission arrives after a long silence
StartTape ==
    /\ ntapes < MaxTapes
    /\ IF tapeId = 0 THEN TRUE ELSE tapePos = Len(Tapes[tapeId])
    /\ \E t \in 1..Len(Tapes) :
        /\ tapeId' = t
        /\ Deliver(0, U64((ntapes + 1) * Period))
    /\ tapePos' = 0
    /\ ntapes' = ntapes + 1
    /\ UNCHANGED mainVars

\* the next edge of the transmission
TapeEvent ==
    /\ tapeId # 0
    /\ tapePos < Len(Tapes[tapeId])
    /\ LET e == Tapes[tapeId][tapePos + 1]
       IN  Deliver(e.highLow, Add64(lastTime, U64(e.gap)))
    /\ tapePos' = tapePos + 1
    /\ UNCHANGED <<tapeId, ntapes, mainVars>>

Next == FreeEvent \/ StartTape \/ TapeEvent

Spec == Init /\ [][Next]_vars

-----------------------------------------------------------------------------
(* decodePulse on its own: every level with every duration up to MaxPulseUs,
   below and above 2^16 *)

MaxPulseUs == 2000    \* low 16 bits of the durations classified
MaxHigh == 1          \* high 16 bits of the durations classified

InitPulse ==
    /\ variant \in Variants
    /\ duration = <<0, 0>>
    /\ lastTime = U64(0)
    /\ prevPulse = PULSE_NOISE
    /\ g_bitBuffer = [k \in 0..MAX_BIT_COUNT |-> 0]
    /\ g_bitIndex = 0
    /\ file = NoFile
    /\ \E l \in {0, 1}, hi \in 0..MaxHigh, lo \in 0..MaxPulseUs :
           ev = [highLow |-> l, timeMicros |-> <<0, 0, hi, lo>>]
    /\ code = NO_CODE
    /\ emitted = <<>>
    /\ pre = [prevPulse |-> PULSE_NOISE, g_bitIndex |-> 0, hist |-> <<>>]
    /\ hist = <<>>
    /\ tapeId = 0
    /\ tapePos = 0
    /\ ntapes = 0
    /\ pc = "check"
    /\ g_keepRunning = 1
    /\ active = 0
    /\ queued = 0
    /\ eintr = 0
    /\ released = 0
    /\ closed = 0
    /\ afterSignal = 0
    /\ arg = <<>>
    /\ ret = <<>>

\* code = decodePulse(highLow, duration) with duration = time - lastTime
Classify ==
    /\ tapePos = 0
    /\ duration' = ToUInt(Sub64(ev.timeMicros, lastTime))
    /\ code' = decodePulse(variant, ev.highLow, duration')
    /\ tapePos' = 1
    /\ UNCHANGED <<mainVars, variant, lastTime, prevPulse, g_bitBuffer, g_bitIndex, file,
                   ev, emitted, pre, hist, tapeId, ntapes, arg, ret>>

NextPulse == Classify

SpecPulse == InitPulse /\ [][NextPulse]_vars

-----------------------------------------------------------------------------
(* Properties of the decoder.  ev, code and emitted describe the last call of
   handleEvent; pre holds prevPulse, g_bitIndex and hist as they were when
   that call began.  A Reading counts as output once processSequence hands it
   to its output code (line 273 of decoder.c), whether or not fopen succeeds. *)

Offs == {PULSE_SHORT_OFF, PULSE_LONG_OFF}

\* handleEvent has been called at least once
Handled == tapePos > 0 \/ ntapes > 0

\* the last call appended a symbol to the buffer
Appended == g_bitIndex = pre.g_bitIndex + 1

BitOf(sym) == IF sym = PULSE_SHORT_OFF THEN 1 ELSE 0

\* the byte the eight symbols s[base + 8i] .. s[base + 8i + 7] spell, most
\* significant bit first, a short off pulse being a 1
ByteOf(s, base, i) ==
    (128 * BitOf(s[base + (8 * i)])) + (64 * BitOf(s[base + (8 * i) + 1]))
    + (32 * BitOf(s[base + (8 * i) + 2])) + (16 * BitOf(s[base + (8 * i) + 3]))
    + (8 * BitOf(s[base + (8 * i) + 4])) + (4 * BitOf(s[base + (8 * i) + 5]))
    + (2 * BitOf(s[base + (8 * i) + 6])) + BitOf(s[base + (8 * i) + 7])

\* the Reading five bytes b[0..4] carry
ReadingOf(b) ==
    LET mag == ((b[1] % 8) * 256) + b[2]
    IN  [tempInt |-> IF (b[1] \div 8) % 2 = 1 THEN 0 - mag ELSE mag, rh |-> b[3]]

\* the buffer the last call saw (a Noise event leaves the array as it was)
\* holds a frame the scanner finds, of the right length and checksum
FrameInBuffer ==
    LET i == scanForPreamble(variant, g_bitBuffer, pre.g_bitIndex)
    IN  /\ i # SIZE_MAX
        /\ pre.g_bitIndex - (i + 4) = 8 * EXPECTED_DATA_LEN
        /\ LET b == [k \in 0..4 |-> ByteOf(g_bitBuffer, i + 4, k)]
           IN  crc8(variant, b, 4) = b[4]

\* C1: an event outputs a Reading only if it is classified Noise, the buffer
\* was not empty, the scanner found the preamble, the symbols after it are
\* exactly 40 and crc8 of the first four assembled bytes equals the fifth;
\* no event outputs more than one Reading.
C1_ReadingOnlyFromCheckedFrame ==
    /\ Len(emitted) <= 1
    /\ emitted # <<>> =>
           /\ code = PULSE_NOISE
           /\ pre.g_bitIndex # 0
           /\ FrameInBuffer

\* a Reading has been output by a Noise event that found a frame
C1_Witness == emitted # <<>> /\ code = PULSE_NOISE /\ FrameInBuffer

\* h is the classification of a Noise event followed by 44 (On, Off) pairs
\* whose Off symbols are the preamble S,S,S,S,L,S,L,L and 36 more, the 40
\* symbols from offset 4 spelling b0..b4 with b4 = crc8(b0..b3)
CleanFrame(h) ==
    /\ Len(h) = 1 + (2 * (4 + (8 * EXPECTED_DATA_LEN)))
    /\ h[1] = PULSE_NOISE
    /\ \A k \in 1..(4 + (8 * EXPECTED_DATA_LEN)) :
           h[2 * k] = PULSE_ON /\ h[(2 * k) + 1] \in Offs
    /\ \A j \in 1..PREAMBLE_LEN : h[(2 * j) + 1] = PREAMBLE_SEQ[j]
    /\ LET syms == [m \in 1..(4 + (8 * EXPECTED_DATA_LEN)) |-> h[(2 * m) + 1]]
           b == [k \in 0..4 |-> ByteOf(syms, 5, k)]
       IN  crc8(variant, b, 4) = b[4]

FrameReading(h) ==
    LET syms == [m \in 1..(4 + (8 * EXPECTED_DATA_LEN)) |-> h[(2 * m) + 1]]
    IN  ReadingOf([k \in 0..4 |-> ByteOf(syms, 5, k)])

\* C2: a Noise event, then 44 (On, Off) pairs carrying the preamble and five
\* bytes with a correct checksum, then a Noise event: that last event outputs
\* exactly one Reading, with temperature ((b1 AND 7) << 8) + b2 tenths,
\* negated iff b1 AND 8, and humidity b3.
C2_ResyncDecodesCleanFrame ==
    (code = PULSE_NOISE /\ CleanFrame(pre.hist)) => emitted = <<FrameReading(pre.hist)>>

\* such a transmission has ended and its Reading, a negative temperature, is out
C2_Witness ==
    /\ code = PULSE_NOISE
    /\ CleanFrame(pre.hist)
    /\ emitted # <<>>
    /\ emitted[1].tempInt < 0

\* (level, duration) lies in none of the timing windows, endpoints included
NoWindow(highLow, d) ==
    IF highLow = 0
    THEN /\ ~(UGe(d, OFF_SHORT_PULSE_LOWER_US) /\ ULe(d, OFF_SHORT_PULSE_UPPER_US))
         /\ ~(UGe(d, OFF_LONG_PULSE_LOWER_US) /\ ULe(d, OFF_LONG_PULSE_UPPER_US))
    ELSE ~(UGe(d, ON_PULSE_LOWER_US) /\ ULe(d, ON_PULSE_UPPER_US))

\* C3: every event whose (level, duration) matches no timing window is
\* classified Noise; a frame in a non-empty buffer is then scanned for and
\* decoded, and the event always ends with the buffer empty and
\* prevPulse = Noise, nothing appended.
C3_UnmatchedEventResyncs ==
    (Handled /\ NoWindow(ev.highLow, duration)) =>
        /\ code = PULSE_NOISE
        /\ g_bitIndex = 0
        /\ prevPulse = PULSE_NOISE
        /\ (pre.g_bitIndex # 0 /\ FrameInBuffer) => emitted # <<>>

\* the classification of the latest event of h that was classified at all
RECURSIVE LastClassified(_, _)
LastClassified(h, k) ==
    IF k = 0 THEN PULSE_NOISE
    ELSE IF h[k] # NO_CODE THEN h[k]
    ELSE LastClassified(h, k - 1)

PrevClassified == LastClassified(pre.hist, Len(pre.hist))

\* C4: an event appends a symbol only if it is classified ShortOff or LongOff
\* and the previous classified event was On; an Off after Noise or after
\* another Off appends nothing and leaves the buffer length as it was.
C4_AppendOnlyOffAfterOn ==
    /\ Appended => (code \in Offs /\ PrevClassified = PULSE_ON)
    /\ (Handled /\ code \in Offs /\ PrevClassified # PULSE_ON) =>
           g_bitIndex = pre.g_bitIndex

\* C5: every buffer entry below g_bitIndex is ShortOff or LongOff.
C5_BufferHoldsOnlyOff ==
    \A k \in 0..(g_bitIndex - 1) : g_bitBuffer[k] \in Offs

\* the buffer is full, of both kinds of symbol
C5_Witness ==
    /\ g_bitIndex = MAX_BIT_COUNT
    /\ \E k \in 0..(g_bitIndex - 1) : g_bitBuffer[k] = PULSE_SHORT_OFF
    /\ \E k \in 0..(g_bitIndex - 1) : g_bitBuffer[k] = PULSE_LONG_OFF

\* C6: g_bitIndex stays within 0..128 and every append writes at an index
\* below 128.
C6_IndexWithinCapacity ==
    /\ g_bitIndex \in 0..MAX_BIT_COUNT
    /\ Appended => pre.g_bitIndex < MAX_BIT_COUNT

\* the last slot of the buffer has just been written
C6_Witness == Appended /\ pre.g_bitIndex = MAX_BIT_COUNT - 1

\* more Off-after-On symbols than the buffer holds have come since the last Noise
Overflowed(h) ==
    Cardinality({k \in 2..Len(h) : h[k] \in Offs /\ h[k - 1] = PULSE_ON}) > MAX_BIT_COUNT

\* the last 88 entries of h, after a Noise in front, are a clean frame
EndsWithCleanFrame(h) ==
    /\ Len(h) >= 2 * (4 + (8 * EXPECTED_DATA_LEN))
    /\ CleanFrame(<<PULSE_NOISE>>
                  \o SubSeq(h, Len(h) - (2 * (4 + (8 * EXPECTED_DATA_LEN))) + 1, Len(h)))

\* C7: an Off after On that finds 128 symbols in the buffer empties it, is
\* not stored, and the discarded symbols are neither scanned nor decoded;
\* afterwards symbols are buffered from index 0 and a frame is decoded.
C7_OverflowResets ==
    /\ (code \in Offs /\ pre.prevPulse = PULSE_ON /\ pre.g_bitIndex = MAX_BIT_COUNT) =>
           (g_bitIndex = 0 /\ emitted = <<>>)
    /\ (Overflowed(pre.hist) /\ pre.g_bitIndex = 0 /\ code \in Offs
            /\ pre.prevPulse = PULSE_ON) =>
           (g_bitIndex = 1 /\ g_bitBuffer[0] = code)
    /\ (Overflowed(pre.hist) /\ code = PULSE_NOISE /\ EndsWithCleanFrame(pre.hist)
            /\ pre.g_bitIndex = 4 + (8 * EXPECTED_DATA_LEN)) =>
           emitted = <<FrameReading(<<PULSE_NOISE>> \o
                          SubSeq(pre.hist,
                                 Len(pre.hist) - (2 * (4 + (8 * EXPECTED_DATA_LEN))) + 1,
                                 Len(pre.hist)))>>

\* a frame that followed an overflow has been decoded
C7_Witness ==
    /\ Overflowed(pre.hist)
    /\ code = PULSE_NOISE
    /\ EndsWithCleanFrame(pre.hist)
    /\ emitted # <<>>

\* an On event that finds prevPulse = On changes nothing and outputs nothing
OnAfterOnStep ==
    (prevPulse = PULSE_ON /\ code' = PULSE_ON) =>
        /\ g_bitBuffer' = g_bitBuffer
        /\ g_bitIndex' = g_bitIndex
        /\ prevPulse' = prevPulse
        /\ emitted' = <<>>
        /\ file' = file

\* the state was left by an ignored On after On
AfterDoubleOn == Handled /\ code = PULSE_ON /\ pre.prevPulse = PULSE_ON

\* C8, as the spec has it: On after On leaves buffer, length and prevPulse
\* alone and outputs nothing, and the Off that follows is appended exactly
\* once.
C8_DoubleOnIgnored ==
    [][/\ OnAfterOnStep
       /\ (AfterDoubleOn /\ code' \in Offs) =>
              /\ g_bitIndex' = g_bitIndex + 1
              /\ g_bitBuffer' = [g_bitBuffer EXCEPT ![g_bitIndex] = code']]_vars

\* C8, with the full buffer set apart: On after On leaves buffer, length and
\* prevPulse alone and outputs nothing, and the Off that follows is appended
\* exactly once if the buffer holds fewer than 128 symbols; if it holds 128
\* that Off empties the buffer instead.
C8_DoubleOnIgnoredUnlessFull ==
    [][/\ OnAfterOnStep
       /\ (AfterDoubleOn /\ code' \in Offs /\ g_bitIndex < MAX_BIT_COUNT) =>
              /\ g_bitIndex' = g_bitIndex + 1
              /\ g_bitBuffer' = [g_bitBuffer EXCEPT ![g_bitIndex] = code']
       /\ (AfterDoubleOn /\ code' \in Offs /\ g_bitIndex = MAX_BIT_COUNT) =>
              g_bitIndex' = 0]_vars

\* On, On, Off inside a frame: the Off has been appended
C8_Witness ==
    /\ code \in Offs
    /\ Appended
    /\ pre.g_bitIndex > 0
    /\ Len(pre.hist) >= 2
    /\ pre.hist[Len(pre.hist)] = PULSE_ON
    /\ pre.hist[Len(pre.hist) - 1] = PULSE_ON

\* C9: after an event classified On, ShortOff or LongOff, prevPulse is that
\* event's symbol, the ignored On after On being the only exception.
C9_PrevPulseTracksEvent ==
    (Handled /\ code \in (Offs \cup {PULSE_ON})
        /\ ~(code = PULSE_ON /\ pre.prevPulse = PULSE_ON)) =>
        prevPulse = code

\* the classification with inclusive endpoints, d in microseconds
InclusiveClass(highLow, d) ==
    IF highLow = 0
    THEN IF OFF_SHORT_PULSE_LOWER_US <= d /\ d <= OFF_SHORT_PULSE_UPPER_US
         THEN PULSE_SHORT_OFF
         ELSE IF OFF_LONG_PULSE_LOWER_US <= d /\ d <= OFF_LONG_PULSE_UPPER_US
         THEN PULSE_LONG_OFF
         ELSE PULSE_NOISE
    ELSE IF ON_PULSE_LOWER_US <= d /\ d <= ON_PULSE_UPPER_US
         THEN PULSE_ON
         ELSE PULSE_NOISE

\* C10: decodePulse takes the endpoints of its windows as inside them:
\* 250 <= d <= 750 is ShortOff and 1250 <= d <= 1750 LongOff at level Low,
\* 750 <= d <= 1250 is On at level High, anything else Noise.  (tapePos = 1
\* once Classify has run.)
C10_InclusiveEndpoints ==
    (tapePos = 1) => code = InclusiveClass(ev.highLow, (duration[1] * Limb) + duration[2])

\* the duration Classify passed to decodePulse, in microseconds
ClassifiedUs == (duration[1] * Limb) + duration[2]

\* the classification with half-open windows [lower, upper)
HalfOpenClass(highLow, d) ==
    IF highLow = 0
    THEN IF OFF_SHORT_PULSE_LOWER_US <= d /\ d < OFF_SHORT_PULSE_UPPER_US
         THEN PULSE_SHORT_OFF
         ELSE IF OFF_LONG_PULSE_LOWER_US <= d /\ d < OFF_LONG_PULSE_UPPER_US
         THEN PULSE_LONG_OFF
         ELSE PULSE_NOISE
    ELSE IF ON_PULSE_LOWER_US <= d /\ d < ON_PULSE_UPPER_US
         THEN PULSE_ON
         ELSE PULSE_NOISE

\* d is an endpoint of a window of that level
AtEndpoint(highLow, d) ==
    IF highLow = 0
    THEN d \in {OFF_SHORT_PULSE_LOWER_US, OFF_SHORT_PULSE_UPPER_US,
                OFF_LONG_PULSE_LOWER_US, OFF_LONG_PULSE_UPPER_US}
    ELSE d \in {ON_PULSE_LOWER_US, ON_PULSE_UPPER_US}

-----------------------------------------------------------------------------
(* scanForPreamble on its own: every buffer of up to MaxScanLen off symbols,
   and buffers holding the preamble twice *)

MaxScanLen == 10      \* longest buffer of arbitrary symbols
MaxPad == 1           \* longest run before, between and after two preambles

SymSeqs(n) == UNION {[1..k -> Offs] : k \in 0..n}

ScanInputs ==
    SymSeqs(MaxScanLen) \cup
    {a \o PREAMBLE_SEQ \o b \o PREAMBLE_SEQ \o c :
        a \in SymSeqs(MaxPad), b \in SymSeqs(MaxPad), c \in SymSeqs(MaxPad)}

\* g_bitBuffer holding syms in its first Len(syms) slots
BufferOf(syms) ==
    [k \in 0..MAX_BIT_COUNT |-> IF k < Len(syms) THEN syms[k + 1] ELSE 0]

InitScan ==
    /\ variant \in Variants
    /\ duration = <<0, 0>>
    /\ lastTime = U64(0)
    /\ prevPulse = PULSE_NOISE
    /\ \E syms \in ScanInputs :
        /\ g_bitBuffer = BufferOf(syms)
        /\ g_bitIndex = Len(syms)
    /\ file = NoFile
    /\ ev = [highLow |-> 0, timeMicros |-> U64(0)]
    /\ code = NO_CODE
    /\ emitted = <<>>
    /\ pre = [prevPulse |-> PULSE_NOISE, g_bitIndex |-> 0, hist |-> <<>>]
    /\ hist = <<>>
    /\ tapeId = 0
    /\ tapePos = 0
    /\ ntapes = 0
    /\ pc = "check"
    /\ g_keepRunning = 1
    /\ active = 0
    /\ queued = 0
    /\ eintr = 0
    /\ released = 0
    /\ closed = 0
    /\ afterSignal = 0
    /\ arg = <<>>
    /\ ret = <<>>

\* size_t preambleIdx = scanForPreamble();
Scan ==
    /\ tapePos = 0
    /\ ret' = scanForPreamble(variant, g_bitBuffer, g_bitIndex)
    /\ tapePos' = 1
    /\ UNCHANGED <<mainVars, variant, duration, lastTime, prevPulse, g_bitBuffer, g_bitIndex,
                   file, ev, code, emitted, pre, hist, tapeId, ntapes, arg>>

NextScan == Scan

SpecScan == InitScan /\ [][NextScan]_vars

\* the offsets at which the buffer holds the eight preamble symbols
PreambleAt(buf, len) ==
    {i \in 0..(len - PREAMBLE_LEN) :
        \A j \in 0..(PREAMBLE_LEN - 1) : buf[i + j] = PREAMBLE_SEQ[j + 1]}

\* C12: scanForPreamble returns the lowest i with buffer[i..i+7] = PREAMBLE
\* for a match at any offset 0 <= i <= length - 8, the last offset included,
\* and not-found exactly when the buffer is shorter than 8 or holds no such run.
C12_ScanFindsFirstMatch ==
    (tapePos = 1) =>
        LET hits == PreambleAt(g_bitBuffer, g_bitIndex)
        IN  IF hits = {} THEN ret = SIZE_MAX
            ELSE ret \in hits /\ \A k \in hits : ret <= k

-----------------------------------------------------------------------------
(* src/src/piook.c: the single-file version of the decoder.  Its indices are
   int; scanForPreamble and processSequence are modelled here, its decodePulse
   and crc8 read as those of decoder.c do. *)

\* piook.c: for(int i = 0; i < g_bitIndex - PREAMBLE_LEN; i++), return -1
scanForPreamble_piook(buf, idx) ==
    LET hits == {i \in 0..(idx - PREAMBLE_LEN - 1) :
                    PREAMBLE_LEN = matchLoop_decoder(buf, i, 0)}
    IN  IF hits = {} THEN 0 - 1
        ELSE CHOOSE i \in hits : \A k \in hits : i <= k

\* int / int truncates towards zero
CDiv(a, b) == IF a >= 0 THEN a \div b ELSE 0 - ((0 - a) \div b)

\* piook.c: if(1 == g_bitBuffer[idx]) b += mask; mask = mask >> 1;
RECURSIVE foldByte_piook(_, _, _, _, _)
foldByte_piook(buf, idx, j, mask, b) ==
    IF j < 8
    THEN foldByte_piook(buf, idx + 1, j + 1, mask \div 2,
                        IF 1 = buf[idx] THEN (b + mask) % 256 ELSE b)
    ELSE b

assemble_piook(buf, preambleIdx, dataLen) ==
    [i \in 0..(dataLen - 1) |-> foldByte_piook(buf, preambleIdx + (8 * i), 0, 128, 0)]

\* piook.c: uint8_t crc8(uint8_t *addr, uint8_t len), the loop of decoder.c
crc8_piook(addr, len) == crcLoop_decoder(addr, len, 0, 0)

\* piook.c lines 195-260
processSequence_piook(buf, idx, preambleIdx, fopenOk, oldFile) ==
    LET bitLen == idx - preambleIdx
        dataLen == CDiv(bitLen, 8)
    IN  IF dataLen # EXPECTED_DATA_LEN THEN Rejected(oldFile)
        ELSE LET data == assemble_piook(buf, preambleIdx, dataLen)
                 checksum == crc8_piook(data, 4)
             IN  IF checksum # data[4] THEN Rejected(oldFile)
                 ELSE LET r == decodeFields(data)
                      IN  [emitted |-> <<r>>,
                           file |-> writeOutput(r, fopenOk, oldFile)]

Versions == Variants \cup {"piook"}

\* the noise branch of handleEvent from the scan to the end of processSequence:
\* preambleIdx = scanForPreamble(); if found, processSequence(preambleIdx + 4)
scanAndProcess(v, buf, idx, fopenOk, oldFile) ==
    LET preambleIdx == IF v = "piook" THEN scanForPreamble_piook(buf, idx)
                       ELSE scanForPreamble(v, buf, idx)
        out == IF SIZE_MAX = preambleIdx THEN Rejected(oldFile)
               ELSE IF v = "piook"
               THEN processSequence_piook(buf, idx, preambleIdx + 4, fopenOk, oldFile)
               ELSE IF v = "decoder"
               THEN processSequence_decoder(buf, idx, preambleIdx + 4, fopenOk, oldFile)
               ELSE processSequence_part003(buf, idx, preambleIdx + 4, fopenOk, oldFile)
    IN  [preambleIdx |-> preambleIdx, emitted |-> out.emitted, file |-> out.file]

-----------------------------------------------------------------------------
(* The buffer at the Noise event that ends a pulse train: a transmission,
   whole, cut short or run on, behind up to MaxLead other symbols *)

MaxLead == 1          \* symbols buffered before the transmission
MaxTail == 9          \* symbols buffered after the 44 of the transmission

Frames == {FrameA, FrameB, FrameBad}

PulseTrains ==
    {Repeat(PULSE_LONG_OFF, k) \o Transmission(f) \o Repeat(t, MaxTail) :
        k \in 0..MaxLead, f \in Frames, t \in Offs}

SeqInputs ==
    UNION {{SubSeq(full, 1, n) : n \in PREAMBLE_LEN..Len(full)} : full \in PulseTrains}

InitSeq ==
    /\ variant \in Versions
    /\ duration = <<0, 0>>
    /\ lastTime = U64(0)
    /\ prevPulse = PULSE_NOISE
    /\ \E syms \in SeqInputs :
        /\ g_bitBuffer = BufferOf(syms)
        /\ g_bitIndex = Len(syms)
    /\ file = NoFile
    /\ ev = [highLow |-> 0, timeMicros |-> U64(0)]
    /\ code = NO_CODE
    /\ emitted = <<>>
    /\ pre = [prevPulse |-> PULSE_NOISE, g_bitIndex |-> 0, hist |-> <<>>]
    /\ hist = <<>>
    /\ tapeId = 0
    /\ tapePos = 0
    /\ ntapes = 0
    /\ pc = "check"
    /\ g_keepRunning = 1
    /\ active = 0
    /\ queued = 0
    /\ eintr = 0
    /\ released = 0
    /\ closed = 0
    /\ afterSignal = 0
    /\ arg = <<>>
    /\ ret = <<>>

ProcessSeq ==
    /\ tapePos = 0
    /\ g_bitIndex # 0
    /\ \E fopenOk \in BOOLEAN :
        LET r == scanAndProcess(variant, g_bitBuffer, g_bitIndex, fopenOk, file)
        IN  /\ ret' = [preambleIdx |-> r.preambleIdx]
            /\ emitted' = r.emitted
            /\ file' = r.file
    /\ tapePos' = 1
    /\ UNCHANGED <<mainVars, variant, duration, lastTime, prevPulse, g_bitBuffer, g_bitIndex,
                   ev, code, pre, hist, tapeId, ntapes, arg>>

NextSeq == ProcessSeq

SpecSeq == InitSeq /\ [][NextSeq]_vars

\* the number of symbols from the start index (match + 4) to the end of the buffer
SymbolsFromStart == g_bitIndex - (ret.preambleIdx + 4)

\* C13: with the preamble matched at i and the start index i + 4,
\* processSequence goes on to the checksum only when bufferLength - (i + 4)
\* is exactly 40; for every other count the frame is rejected and nothing
\* is output.
C13_OnlyFortySymbolsAccepted ==
    (tapePos = 1 /\ ret.preambleIdx # SIZE_MAX /\ SymbolsFromStart # 8 * EXPECTED_DATA_LEN)
        => emitted = <<>> /\ file = NoFile

-----------------------------------------------------------------------------
(* The assembler loop of processSequence on its own: 40 symbols encoding five
   bytes, from the start index on *)

MaxStart == 4         \* highest start index tried (besides 0)

Bytes == 0..255

\* every value of every byte, the other four taken from a frame or all alike
BaseFrames == {FrameA, FrameB, <<0, 0, 0, 0, 0>>, <<255, 255, 255, 255, 255>>}

FoldInputs == {[base EXCEPT ![p] = v] : base \in BaseFrames, p \in 1..5, v \in Bytes}

assemble(v, buf, preambleIdx, dataLen) ==
    IF v = "decoder" THEN assemble_decoder(buf, preambleIdx, dataLen)
    ELSE IF v = "part_003" THEN assemble_part003(buf, preambleIdx, dataLen)
    ELSE assemble_piook(buf, preambleIdx, dataLen)

InitFold ==
    /\ variant \in Versions
    /\ duration = <<0, 0>>
    /\ lastTime = U64(0)
    /\ prevPulse = PULSE_NOISE
    /\ \E bytes \in FoldInputs, start \in {0, MaxStart} :
        /\ arg = [bytes |-> bytes, preambleIdx |-> start]
        /\ g_bitBuffer = BufferOf(Repeat(PULSE_SHORT_OFF, start) \o Encode(bytes))
        /\ g_bitIndex = start + (8 * EXPECTED_DATA_LEN)
    /\ file = NoFile
    /\ ev = [highLow |-> 0, timeMicros |-> U64(0)]
    /\ code = NO_CODE
    /\ emitted = <<>>
    /\ pre = [prevPulse |-> PULSE_NOISE, g_bitIndex |-> 0, hist |-> <<>>]
    /\ hist = <<>>
    /\ tapeId = 0
    /\ tapePos = 0
    /\ ntapes = 0
    /\ pc = "check"
    /\ g_keepRunning = 1
    /\ active = 0
    /\ queued = 0
    /\ eintr = 0
    /\ released = 0
    /\ closed = 0
    /\ afterSignal = 0
    /\ ret = <<>>

\* data[0..4] after the assembler loop, as a tuple
Fold ==
    /\ tapePos = 0
    /\ LET data == assemble(variant, g_bitBuffer, arg.preambleIdx, EXPECTED_DATA_LEN)
       IN  ret' = [i \in 1..EXPECTED_DATA_LEN |-> data[i - 1]]
    /\ tapePos' = 1
    /\ UNCHANGED <<mainVars, variant, duration, lastTime, prevPulse, g_bitBuffer, g_bitIndex,
                   file, ev, code, emitted, pre, hist, tapeId, ntapes, arg>>

NextFold == Fold

SpecFold == InitFold /\ [][NextFold]_vars

\* C14: encoding five bytes as 40 symbols (1 as ShortOff, 0 as LongOff, most
\* significant bit first) and folding them with the assembler loop gives
\* back the five bytes.
C14_FrameRoundTrip ==
    (tapePos = 1) => ret = arg.bytes

\* a byte with alternating bits, folded from start index 4
C14_Witness ==
    /\ tapePos = 1
    /\ variant = "decoder"
    /\ arg.preambleIdx = MaxStart
    /\ arg.bytes = <<165, 1, 10, 90, FrameA[5]>>
    /\ ret[1] = 165

-----------------------------------------------------------------------------
(* crc8 and the checksum test of processSequence on their own: frames of five
   bytes whose fifth byte is the checksum of the first four, or is not *)

\* every value of each of the four checked bytes, the others those of FrameB,
\* and the first four bytes of the base frames
CrcData == {SubSeq(f, 1, 4) : f \in {x \in FoldInputs : x[5] = FrameB[5]}}

\* the right checksum and one with its top bit wrong
CrcInputs ==
    {WithCrc(d) : d \in CrcData} \cup
    {d \o <<BitXor(WithCrc(d)[5], 128)>> : d \in CrcData}

\* crc8(data, len) of each version
crc8_of(v, data, len) ==
    IF v = "piook" THEN crc8_piook(data, len) ELSE crc8(v, data, len)

InitCrc ==
    /\ variant \in Versions
    /\ duration = <<0, 0>>
    /\ lastTime = U64(0)
    /\ prevPulse = PULSE_NOISE
    /\ \E bytes \in CrcInputs :
        /\ arg = [bytes |-> bytes, preambleIdx |-> 0]
        /\ g_bitBuffer = BufferOf(Transmission(bytes))
        /\ g_bitIndex = 4 + (8 * EXPECTED_DATA_LEN)
    /\ file = NoFile
    /\ ev = [highLow |-> 0, timeMicros |-> U64(0)]
    /\ code = NO_CODE
    /\ emitted = <<>>
    /\ pre = [prevPulse |-> PULSE_NOISE, g_bitIndex |-> 0, hist |-> <<>>]
    /\ hist = <<>>
    /\ tapeId = 0
    /\ tapePos = 0
    /\ ntapes = 0
    /\ pc = "check"
    /\ g_keepRunning = 1
    /\ active = 0
    /\ queued = 0
    /\ eintr = 0
    /\ released = 0
    /\ closed = 0
    /\ afterSignal = 0
    /\ ret = <<>>

\* processSequence(4) on the buffer; ret is its local `checksum`
Checksum ==
    /\ tapePos = 0
    /\ \E fopenOk \in BOOLEAN :
        LET v == variant
            out == IF v = "piook"
                   THEN processSequence_piook(g_bitBuffer, g_bitIndex, 4, fopenOk, file)
                   ELSE IF v = "decoder"
                   THEN processSequence_decoder(g_bitBuffer, g_bitIndex, 4, fopenOk, file)
                   ELSE processSequence_part003(g_bitBuffer, g_bitIndex, 4, fopenOk, file)
        IN  /\ emitted' = out.emitted
            /\ file' = out.file
    /\ ret' = [checksum |-> crc8_of(variant, assemble(variant, g_bitBuffer, 4, EXPECTED_DATA_LEN), 4)]
    /\ tapePos' = 1
    /\ UNCHANGED <<mainVars, variant, duration, lastTime, prevPulse, g_bitBuffer, g_bitIndex,
                   ev, code, pre, hist, tapeId, ntapes, arg>>

NextCrc == Checksum

SpecCrc == InitCrc /\ [][NextCrc]_vars

\* the bits of a byte sequence, most significant bit of each byte first
BitsOf(bytes) ==
    [k \in 1..(8 * Len(bytes)) |->
        (bytes[((k - 1) \div 8) + 1] \div (2 ^ (7 - ((k - 1) % 8)))) % 2]

\* the bit loop as specified, over the bits from the k-th on: mix is the top
\* bit of crc against the message bit; crc shifts left in 8 bits and takes
\* 0x31 when mix is set
RECURSIVE BitLoop(_, _, _)
BitLoop(bits, k, crc) ==
    IF k > Len(bits) \/ crc < 0 THEN crc
    ELSE BitLoop(bits, k + 1,
                 IF (crc \div 128) # bits[k]
                 THEN BitXor((crc * 2) % 256, 49)
                 ELSE (crc * 2) % 256)

\* C15: crc8 over the first four frame bytes is the specified bit loop
\* (initial value 0, most significant bit first, polynomial 0x31), lies in
\* 0..255, the frame is accepted exactly when it equals frame byte 4, and
\* the crc8 implementations of the repository agree on every input.
C15_Crc8AndAcceptance ==
    (tapePos = 1) =>
        LET d == [i \in 0..4 |-> arg.bytes[i + 1]]
        IN  /\ ret.checksum = BitLoop(BitsOf(SubSeq(arg.bytes, 1, 4)), 1, 0)
            /\ ret.checksum \in Bytes
            /\ (emitted # <<>>) <=> (ret.checksum = arg.bytes[5])
            /\ \A len \in {4, EXPECTED_DATA_LEN} :
                   LET mine == crc8_of(variant, d, len)
                   IN  \A v \in Versions \ {variant} : mine = crc8_of(v, d, len)

\* a frame with the right checksum has been accepted, and one with a wrong
\* checksum would not be
C15_Witness ==
    /\ tapePos = 1
    /\ variant = "part_003"
    /\ arg.bytes = FrameA
    /\ ret.checksum = FrameA[5]
    /\ emitted # <<>>

-----------------------------------------------------------------------------
(* The field extraction of processSequence on its own (the same lines in
   decoder.c, part_003 and piook.c): every value of data[1] and data[2];
   data[4] is not read *)

\* data[0..n-1] holding a byte sequence
DataOf(bytes) == [i \in 0..(Len(bytes) - 1) |-> bytes[i + 1]]

InitFields ==
    /\ variant = "decoder"
    /\ duration = <<0, 0>>
    /\ lastTime = U64(0)
    /\ prevPulse = PULSE_NOISE
    /\ g_bitBuffer = [k \in 0..MAX_BIT_COUNT |-> 0]
    /\ g_bitIndex = 0
    /\ file = NoFile
    /\ ev = [highLow |-> 0, timeMicros |-> U64(0)]
    /\ code = NO_CODE
    /\ emitted = <<>>
    /\ pre = [prevPulse |-> PULSE_NOISE, g_bitIndex |-> 0, hist |-> <<>>]
    /\ hist = <<>>
    /\ tapeId = 0
    /\ tapePos = 0
    /\ ntapes = 0
    /\ pc = "check"
    /\ g_keepRunning = 1
    /\ active = 0
    /\ queued = 0
    /\ eintr = 0
    /\ released = 0
    /\ closed = 0
    /\ afterSignal = 0
    /\ \E b1 \in Bytes, b2 \in Bytes :
           arg = [bytes |-> <<FrameA[1], b1, b2, FrameA[4]>>]
    /\ ret = <<>>

\* tempInt and rh
Fields ==
    /\ tapePos = 0
    /\ ret' = decodeFields(DataOf(arg.bytes))
    /\ tapePos' = 1
    /\ UNCHANGED <<mainVars, variant, duration, lastTime, prevPulse, g_bitBuffer, g_bitIndex,
                   file, ev, code, emitted, pre, hist, tapeId, ntapes, arg>>

NextFields == Fields

SpecFields == InitFields /\ [][NextFields]_vars

ByteSamples == {0, 74, 165, 255}

\* the frames that differ from b only in byte0, in bits 4-7 of byte1 or in byte3
SameTemperatureBits(b) ==
    {[b EXCEPT ![1] = v] : v \in ByteSamples} \cup
    {[b EXCEPT ![2] = (b[2] % 16) + (16 * h)] : h \in 0..15} \cup
    {[b EXCEPT ![4] = v] : v \in ByteSamples}

\* C16: the temperature in tenths of a degree is ((byte1 AND 7) << 8) + byte2,
\* negated exactly when byte1 AND 8 is set; it lies in -2047..2047 and does
\* not depend on byte0, on bits 4-7 of byte1 or on byte3.
C16_TemperatureDecoding ==
    (tapePos = 1) =>
        LET b == arg.bytes
            mag == ((b[2] % 8) * 256) + b[3]
        IN  /\ ret.tempInt = IF (b[2] \div 8) % 2 = 1 THEN 0 - mag ELSE mag
            /\ ret.tempInt \in (0 - 2047)..2047
            /\ \A o \in SameTemperatureBits(b) :
                   decodeFields(DataOf(o)).tempInt = ret.tempInt

\* the coldest temperature the encoding holds
C16_Witness ==
    /\ tapePos = 1
    /\ arg.bytes[2] = 159
    /\ arg.bytes[3] = 255
    /\ ret.tempInt = 0 - 2047

C18_HumidityInRange ==
    \A i \in 1..Len(emitted) : emitted[i].rh \in 0..100

\* the transmission being received is `tape`
Receiving(tape) == IF tapeId = 0 THEN FALSE ELSE Tapes[tapeId] = tape

\* the events of `tape` up to its last gave no Reading, and its last gave r
OneReadingAtEnd(tape, r) ==
    IF tapePos = Len(tape) THEN emitted = <<r>> ELSE emitted = <<>>

\* C19, as the spec has it: On/Off pairs whose Off symbols are the 8 preamble
\* symbols and then the 40 symbols of the bytes 0x81, 0x0A, 0x5A, 0x23 and
\* their crc8, then a Noise event, emit exactly one Reading, 26.6 degrees
\* and 90 percent.
C19_ScenarioOneAsStated ==
    Receiving(PreambleThenBytes(WithCrc(<<129, 10, 90, 35>>))) =>
        OneReadingAtEnd(PreambleThenBytes(WithCrc(<<129, 10, 90, 35>>)),
                        [tempInt |-> 266, rh |-> 90])

\* C19, with the frame laid out as processSequence reads it: the Off symbols
\* are the first four preamble symbols and then the 40 symbols of the bytes
\* 0x4A, 0x81, 0x0A, 0x5A and their crc8 (the high nibble of the first byte
\* is the second half of the preamble); then a Noise event.  Exactly one
\* Reading is emitted, by the Noise event: 26.6 degrees and 90 percent.
C19_ScenarioOne ==
    Receiving(Pulses(Transmission(FramePos)) \o <<NoiseEv>>) =>
        OneReadingAtEnd(Pulses(Transmission(FramePos)) \o <<NoiseEv>>,
                        [tempInt |-> 266, rh |-> 90])

\* the Noise event that ends scenario 1 has been handled
C19_Witness ==
    /\ Receiving(Pulses(Transmission(FramePos)) \o <<NoiseEv>>)
    /\ tapePos = Len(Tapes[tapeId])
    /\ emitted = <<[tempInt |-> 266, rh |-> 90]>>

\* C20, as the spec has it: scenario 1 with first data byte 0x89 instead of
\* 0x81 and the checksum recomputed emits exactly one Reading, -26.6 degrees
\* and 90 percent.
C20_ScenarioTwoAsStated ==
    Receiving(PreambleThenBytes(WithCrc(<<137, 10, 90, 35>>))) =>
        OneReadingAtEnd(PreambleThenBytes(WithCrc(<<137, 10, 90, 35>>)),
                        [tempInt |-> 0 - 266, rh |-> 90])

\* C20, with the frame laid out as processSequence reads it: the bytes are
\* 0x4A, 0x89, 0x0A, 0x5A and their crc8 behind the first four preamble
\* symbols.  Exactly one Reading is emitted, by the Noise event: -26.6
\* degrees and 90 percent.
C20_ScenarioTwo ==
    Receiving(Pulses(Transmission(FrameNeg)) \o <<NoiseEv>>) =>
        OneReadingAtEnd(Pulses(Transmission(FrameNeg)) \o <<NoiseEv>>,
                        [tempInt |-> 0 - 266, rh |-> 90])

\* the Noise event that ends scenario 2 has been handled
C20_Witness ==
    /\ Receiving(Pulses(Transmission(FrameNeg)) \o <<NoiseEv>>)
    /\ tapePos = Len(Tapes[tapeId])
    /\ emitted = <<[tempInt |-> 0 - 266, rh |-> 90]>>

-----------------------------------------------------------------------------
(* Scripted pulse trains fed to two instances of the decoder at once.  The
   variables hold the first instance and `ret` the second; both get every
   event, and each has its own fopen outcome.  A script is an optional burst
   of On/Off pairs ended by a Noise event, a transmission whose checksum
   byte may have bits flipped, ended by a Noise event, and an optional
   second transmission ended by a Noise event. *)

BurstPairs == 200     \* On/Off pairs of a burst

\* the frame a script transmits first: a.bytes with the bits a.flip of its
\* checksum byte inverted
Flipped(a) == [a.bytes EXCEPT ![5] = BitXor(@, a.flip)]

ScriptOf(a) ==
    (IF a.burst = <<>> THEN <<>> ELSE Pulses(a.burst) \o <<NoiseEv>>)
    \o Pulses(Transmission(Flipped(a))) \o <<NoiseEv>>
    \o (IF a.next = <<>> THEN <<>> ELSE Pulses(Transmission(a.next)) \o <<NoiseEv>>)

\* the number of events up to the Noise event that ends the burst
BurstEnd(a) == IF a.burst = <<>> THEN 0 ELSE (2 * Len(a.burst)) + 1

\* the number of events up to the Noise event that ends the first transmission
FrameEnd(a) == BurstEnd(a) + 89

ValidFrames == {FrameA, FrameB, FramePos, FrameNeg}

Bursts ==
    {Repeat(s, BurstPairs) : s \in Offs} \cup
    {Repeat(PULSE_LONG_OFF, BurstPairs - 44) \o Transmission(FrameB)}

ScriptArgs ==
    {[burst |-> <<>>, bytes |-> f, flip |-> m, next |-> <<>>] :
        f \in ValidFrames, m \in {0} \cup {2 ^ k : k \in 0..7}} \cup
    {[burst |-> b, bytes |-> FrameA, flip |-> 0, next |-> <<>>] : b \in Bursts} \cup
    {[burst |-> <<>>, bytes |-> f, flip |-> m, next |-> g] :
        f \in {FrameA, FrameNeg}, m \in {0, 1}, g \in {FrameB, FrameBad}}

\* the statics and globals of an instance, out of what handleEvent returned
InstanceOf(r) ==
    [duration |-> r.duration, lastTime |-> r.lastTime, prevPulse |-> r.prevPulse,
     g_bitBuffer |-> r.g_bitBuffer, g_bitIndex |-> r.g_bitIndex, file |-> r.file]

\* one call handleEvent(highLow, timeMicros) in each instance
TwinDeliver(highLow, timeMicros) ==
    \E fopenOk \in BOOLEAN, fopenOk2 \in BOOLEAN :
        LET r == handleEvent(variant, DecoderState, highLow, timeMicros, fopenOk)
            r2 == handleEvent(variant, InstanceOf(ret), highLow, timeMicros, fopenOk2)
        IN  /\ duration' = r.duration
            /\ lastTime' = r.lastTime
            /\ prevPulse' = r.prevPulse
            /\ g_bitBuffer' = r.g_bitBuffer
            /\ g_bitIndex' = r.g_bitIndex
            /\ file' = r.file
            /\ ev' = [highLow |-> highLow, timeMicros |-> timeMicros]
            /\ code' = r.code
            /\ emitted' = r.emitted
            /\ pre' = [prevPulse |-> prevPulse, g_bitIndex |-> g_bitIndex, hist |-> hist]
            /\ hist' = IF r.code = PULSE_NOISE THEN <<PULSE_NOISE>>
                       ELSE Append(hist, r.code)
            /\ ret' = r2
            /\ UNCHANGED variant

InitScript ==
    /\ variant \in Variants
    /\ duration = <<0, 0>>
    /\ lastTime = U64(0)
    /\ prevPulse = PULSE_NOISE
    /\ g_bitBuffer = [k \in 0..MAX_BIT_COUNT |-> 0]
    /\ g_bitIndex = 0
    /\ file = NoFile
    /\ ev = [highLow |-> 0, timeMicros |-> U64(0)]
    /\ code = NO_CODE
    /\ emitted = <<>>
    /\ pre = [prevPulse |-> PULSE_NOISE, g_bitIndex |-> 0, hist |-> <<>>]
    /\ hist = <<>>
    /\ tapeId = 0
    /\ tapePos = 0
    /\ ntapes = 0
    /\ pc = "check"
    /\ g_keepRunning = 1
    /\ active = 0
    /\ queued = 0
    /\ eintr = 0
    /\ released = 0
    /\ closed = 0
    /\ afterSignal = 0
    /\ arg = <<>>
    /\ ret = [duration |-> <<0, 0>>, lastTime |-> U64(0), prevPulse |-> PULSE_NOISE,
              g_bitBuffer |-> [k \in 0..MAX_BIT_COUNT |-> 0], g_bitIndex |-> 0,
              file |-> NoFile, code |-> NO_CODE, emitted |-> <<>>]

\* an arbitrary edge before the script
ScriptFree ==
    /\ tapeId = 0
    /\ tapePos < MaxFree
    /\ \E e \in FreeEvents : TwinDeliver(e.highLow, Add64(lastTime, U64(e.gap)))
    /\ tapePos' = tapePos + 1
    /\ UNCHANGED <<tapeId, ntapes, arg, mainVars>>

\* the first edge of a script arrives after a long silence
ScriptBegin ==
    /\ tapeId = 0
    /\ TwinDeliver(0, U64(Period))
    /\ arg' \in ScriptArgs
    /\ tapeId' = 1
    /\ tapePos' = 0
    /\ ntapes' = 1
    /\ UNCHANGED mainVars

\* the next edge of the script
ScriptEvent ==
    /\ tapeId = 1
    /\ tapePos < Len(ScriptOf(arg))
    /\ LET e == ScriptOf(arg)[tapePos + 1]
       IN  TwinDeliver(e.highLow, Add64(lastTime, U64(e.gap)))
    /\ tapePos' = tapePos + 1
    /\ UNCHANGED <<tapeId, ntapes, arg, mainVars>>

NextScript == ScriptFree \/ ScriptBegin \/ ScriptEvent

SpecScript == InitScript /\ [][NextScript]_vars

\* the script is running and its k-th event was the last one handled
ScriptAt(k) == tapeId = 1 /\ tapePos = k

\* C21: a transmission that would decode to a Reading, with any single bit
\* of its checksum byte flipped, gives no Reading, and the Noise event that
\* ends it leaves the buffer empty and prevPulse Noise as it does for the
\* valid frame.
C21_FlippedChecksumRejected ==
    (tapeId = 1 /\ tapePos <= FrameEnd(arg) /\ arg.flip # 0) =>
        /\ emitted = <<>>
        /\ file = NoFile
        /\ tapePos = FrameEnd(arg) => g_bitIndex = 0 /\ prevPulse = PULSE_NOISE

\* the Noise event after a frame whose checksum has its top bit flipped
C21_Witness ==
    /\ ScriptAt(FrameEnd(arg))
    /\ variant = "part_003"
    /\ arg.bytes = FrameB
    /\ arg.flip = 128
    /\ code = PULSE_NOISE
    /\ pre.g_bitIndex = 44
    /\ emitted = <<>>
    /\ g_bitIndex = 0

\* C22: a burst of 200 valid On/Off pairs with no Noise event fills the
\* buffer to 128 symbols, the next Off symbol resets it, and no pair of the
\* burst gives a Reading; after the Noise event that follows, a valid frame
\* ended by a Noise event gives exactly one Reading, its own.
C22_OverflowScenario ==
    (tapeId = 1 /\ arg.burst # <<>>) =>
        /\ tapePos < BurstEnd(arg) =>
            /\ emitted = <<>>
            /\ tapePos % 2 = 0 =>
                  g_bitIndex = IF tapePos \div 2 <= MAX_BIT_COUNT
                               THEN tapePos \div 2
                               ELSE (tapePos \div 2) - (MAX_BIT_COUNT + 1)
        /\ tapePos > BurstEnd(arg) =>
              emitted = IF tapePos = FrameEnd(arg)
                        THEN <<[tempInt |-> 266, rh |-> 90]>>
                        ELSE <<>>

\* the frame after a burst of 200 short off pulses has been decoded
C22_Witness ==
    /\ ScriptAt(FrameEnd(arg))
    /\ arg.burst = Repeat(PULSE_SHORT_OFF, BurstPairs)
    /\ emitted = <<[tempInt |-> 266, rh |-> 90]>>

LineOf(r) == formatLine(r.tempInt, r.rh)

Mag(t) == IF t < 0 THEN 0 - t ELSE t

MaxMainEvents == 3

\* the decoder's globals
decoderVars == <<duration, lastTime, prevPulse, g_bitBuffer, g_bitIndex, file>>

\* what handleEvent reports in the model, beside the decoder's globals
reportVars == <<ev, code, emitted, pre, hist>>

InitMain ==
    /\ variant \in Variants
    /\ duration = <<0, 0>>
    /\ lastTime = U64(0)
    /\ prevPulse = PULSE_NOISE
    /\ g_bitBuffer = [k \in 0..MAX_BIT_COUNT |-> 0]
    /\ g_bitIndex = 0
    /\ file = NoFile
    /\ ev = [highLow |-> 0, timeMicros |-> U64(0)]
    /\ code = NO_CODE
    /\ emitted = <<>>
    /\ pre = [prevPulse |-> PULSE_NOISE, g_bitIndex |-> 0, hist |-> <<>>]
    /\ hist = <<>>
    /\ tapeId = 0
    /\ tapePos = 0
    /\ ntapes = 0
    /\ pc = "check"
    /\ g_keepRunning = 1
    /\ active = 0
    /\ queued = 0
    /\ eintr = 0
    /\ released = 0
    /\ closed = 0
    /\ afterSignal = 0
    /\ arg = <<>>
    /\ ret = <<>>

\* edge events the kernel holds for the line at most
MaxQueued == 2

\* what main, the kernel and handleEvent leave alone in a step of the loop
\* that only moves pc
loopFrame == <<decoderVars, reportVars, variant, tapeId, tapePos, ntapes, arg, ret,
               g_keepRunning, active, queued, eintr, released, closed, afterSignal>>

\* the line changes level: the kernel queues an edge event for the line
\* requested with gpiod_line_request_both_edges_events
Edge ==
    /\ released = 0
    /\ queued < MaxQueued
    /\ tapePos + active + queued < MaxMainEvents
    /\ queued' = queued + 1
    /\ UNCHANGED <<decoderVars, reportVars, variant, tapeId, tapePos, ntapes, arg, ret,
                   pc, g_keepRunning, active, eintr, released, closed, afterSignal>>

\* if (!g_keepRunning) break;
MainCheck ==
    /\ pc = "check"
    /\ pc' = IF g_keepRunning = 0 THEN "exit" ELSE "wait"
    /\ UNCHANGED loopFrame

\* main calls gpiod_line_event_wait(line, NULL) and is blocked in it; a
\* signal handled before this call does not interrupt it
MainWaitCall ==
    /\ pc = "wait"
    /\ pc' = "blocked"
    /\ eintr' = 0
    /\ UNCHANGED <<decoderVars, reportVars, variant, tapeId, tapePos, ntapes, arg, ret,
                   g_keepRunning, active, queued, released, closed, afterSignal>>

\* gpiod_line_event_wait returns: rv < 0 when a signal handler ran during
\* the wait (break), rv > 0 when an edge event is queued
MainWait ==
    /\ pc = "blocked"
    /\ eintr = 1 \/ queued > 0
    /\ pc' = IF eintr = 1 THEN "exit" ELSE "read"
    /\ eintr' = 0
    /\ UNCHANGED <<decoderVars, reportVars, variant, tapeId, tapePos, ntapes, arg, ret,
                   g_keepRunning, active, queued, released, closed, afterSignal>>

\* gpiod_line_event_wait returns for another reason: rv < 0 with another
\* error (break), or rv == 0 (continue)
MainWaitFails ==
    /\ pc = "blocked"
    /\ \E rv \in {-1, 0} : pc' = IF rv < 0 THEN "exit" ELSE "check"
    /\ eintr' = 0
    /\ UNCHANGED <<decoderVars, reportVars, variant, tapeId, tapePos, ntapes, arg, ret,
                   g_keepRunning, active, queued, released, closed, afterSignal>>

\* gpiod_line_event_read: on success the level and the time of the edge are
\* computed and handleEvent is called; on failure the loop goes round
MainRead ==
    /\ pc = "read"
    /\ \/ /\ queued > 0
          /\ \E e \in FreeEvents :
                 arg' = [highLow |-> e.highLow,
                         timeMicros |-> Add64(lastTime, U64(e.gap))]
          /\ queued' = queued - 1
          /\ pc' = "handle"
          /\ active' = active + 1
          /\ afterSignal' = IF g_keepRunning = 0 THEN afterSignal + 1 ELSE afterSignal
       \/ /\ pc' = "check"
          /\ UNCHANGED <<arg, active, queued, afterSignal>>
    /\ UNCHANGED <<decoderVars, reportVars, variant, tapeId, tapePos, ntapes,
                   ret, g_keepRunning, eintr, released, closed>>

\* handleEvent(highLow, timeMicros) runs and returns into the loop
MainHandle ==
    /\ pc = "handle"
    /\ Deliver(arg.highLow, arg.timeMicros)
    /\ pc' = "check"
    /\ active' = active - 1
    /\ tapePos' = tapePos + 1
    /\ UNCHANGED <<tapeId, ntapes, g_keepRunning, queued, eintr, released, closed,
                   afterSignal>>

\* gpiod_line_release(line);
MainRelease ==
    /\ pc = "exit"
    /\ released' = released + 1
    /\ pc' = "close"
    /\ UNCHANGED <<decoderVars, reportVars, variant, tapeId, tapePos, ntapes, arg, ret,
                   g_keepRunning, active, queued, eintr, closed, afterSignal>>

\* gpiod_chip_close(chip); return 0;
MainClose ==
    /\ pc = "close"
    /\ closed' = closed + 1
    /\ pc' = "done"
    /\ UNCHANGED <<decoderVars, reportVars, variant, tapeId, tapePos, ntapes, arg, ret,
                   g_keepRunning, active, queued, eintr, released, afterSignal>>

Signal_resetsBuffer ==
    /\ pc # "done"
    /\ g_keepRunning' = 0
    /\ eintr' = IF pc = "blocked" THEN 1 ELSE eintr
    /\ g_bitIndex' = 0
    /\ prevPulse' = PULSE_NOISE
    /\ UNCHANGED <<duration, lastTime, g_bitBuffer, file, reportVars, variant,
                   tapeId, tapePos, ntapes, arg, ret, pc, active, queued, released,
                   closed, afterSignal>>

\* SIGINT or SIGTERM is delivered and signalHandler runs: g_keepRunning = 0;
\* when main is blocked in the wait, the wait is interrupted
Signal ==
    /\ pc # "done"
    /\ g_keepRunning' = 0
    /\ eintr' = IF pc = "blocked" THEN 1 ELSE eintr
    /\ UNCHANGED <<decoderVars, reportVars, variant, tapeId, tapePos, ntapes,
                   arg, ret, pc, active, queued, released, closed, afterSignal>>

NextMain ==
    \/ Edge \/ MainCheck \/ MainWaitCall \/ MainWait \/ MainWaitFails
    \/ MainRead \/ MainHandle \/ MainRelease \/ MainClose \/ Signal

SpecMain == InitMain /\ [][NextMain]_vars

\* C26: the decoder state (lastTime, prevPulse, the buffer and its length)
\* changes only in a step that is the one running activation of handleEvent
\* returning into the loop of main; there is never more than one activation,
\* a new event is taken only when no activation is running, and a step that
\* delivers a signal (g_keepRunning goes to 0) leaves the decoder state as
\* it was.
C26_SingleSequentialConsumer ==
    [][ /\ active' \in {0, 1}
        /\ (active' = 1) <=> (pc' = "handle")
        /\ (<<lastTime, prevPulse, g_bitBuffer, g_bitIndex>>'
              # <<lastTime, prevPulse, g_bitBuffer, g_bitIndex>>)
             => (pc = "handle" /\ active = 1 /\ pc' = "check" /\ active' = 0)
        /\ (arg' # arg) => (active = 0 /\ pc = "read")
        /\ (g_keepRunning' # g_keepRunning)
             => UNCHANGED <<decoderVars, pc, active>>
      ]_vars

\* a signal was delivered while an activation of handleEvent was running
\* on a buffer that already holds symbols
C26_Witness ==
    /\ pc = "handle"
    /\ active = 1
    /\ g_keepRunning = 0
    /\ g_bitIndex > 0

\* C27: every call of handleEvent stores the timestamp of its event in
\* lastTime, whatever becomes of the event (stored, ignored as On after On,
\* dropped with a full buffer, filtered, Noise), and the duration it computes
\* is the difference, in 32 bits, between the timestamp of its event and the
\* timestamp of the event handled immediately before it.
C27_LastTimeAlwaysUpdated ==
    [][ /\ lastTime' = ev'.timeMicros
        /\ duration' = ToUInt(Sub64(ev'.timeMicros, ev.timeMicros))
      ]_vars

\* an On after an On was ignored (the buffer and prevPulse are as before),
\* its timestamp is in lastTime, and the event before it was not Noise
C27_Witness ==
    /\ Handled
    /\ code = PULSE_ON
    /\ pre.prevPulse = PULSE_ON
    /\ g_bitIndex = pre.g_bitIndex
    /\ g_bitIndex > 0
    /\ lastTime = ev.timeMicros

\* ---------------------------------------------------------------------
\* Classification of events whose distance to the event before is not
\* bounded by 32 bits: the timestamps are unsigned long, the duration is
\* (unsigned int)(time - lastTime).
\* ---------------------------------------------------------------------

\* bits 32..47 of the timestamps classified
MaxTop == 1

InitGap ==
    /\ variant \in Variants
    /\ duration = <<0, 0>>
    /\ lastTime = U64(0)
    /\ prevPulse = PULSE_NOISE
    /\ g_bitBuffer = [k \in 0..MAX_BIT_COUNT |-> 0]
    /\ g_bitIndex = 0
    /\ file = NoFile
    /\ \E l \in {0, 1}, top \in 0..MaxTop, hi \in 0..MaxHigh, lo \in 0..MaxPulseUs :
           ev = [highLow |-> l, timeMicros |-> <<0, top, hi, lo>>]
    /\ code = NO_CODE
    /\ emitted = <<>>
    /\ pre = [prevPulse |-> PULSE_NOISE, g_bitIndex |-> 0, hist |-> <<>>]
    /\ hist = <<>>
    /\ tapeId = 0
    /\ tapePos = 0
    /\ ntapes = 0
    /\ pc = "check"
    /\ g_keepRunning = 1
    /\ active = 0
    /\ queued = 0
    /\ eintr = 0
    /\ released = 0
    /\ closed = 0
    /\ afterSignal = 0
    /\ arg = <<>>
    /\ ret = <<>>

SpecGap == InitGap /\ [][NextPulse]_vars

\* the difference of the two 64-bit timestamps, not truncated
TrueGap == Sub64(ev.timeMicros, lastTime)

\* a 64-bit value above NOISE_MIN_US
Exceeds1750(x) == x[1] > 0 \/ x[2] > 0 \/ x[3] > 0 \/ x[4] > 1750

\* C28: an event whose timestamp is more than 1750 microseconds after the
\* timestamp of the event before it, as 64-bit values, is classified Noise.
C28_TrueGapClassifiedNoise ==
    (tapePos = 1 /\ Exceeds1750(TrueGap)) => code = PULSE_NOISE

\* C29: in part_003 an event whose duration is below 250 microseconds
\* returns before decodePulse: the buffer, its length, prevPulse and the
\* file are as before, nothing is emitted, no classification is made, and
\* lastTime is the timestamp of the event.
C29_ShortPulseFilter ==
    [][ (variant = "part_003" /\ ULt(duration', SHORT_PULSE_FILTER_US))
          => /\ UNCHANGED <<g_bitBuffer, g_bitIndex, prevPulse, file>>
             /\ emitted' = <<>>
             /\ code' = NO_CODE
             /\ lastTime' = ev'.timeMicros
             /\ lastTime' # lastTime
      ]_vars

\* a glitch arrived in the middle of a pulse train: the buffer holds
\* symbols, the event before it was an On, and the glitch was filtered
C29_Witness ==
    /\ variant = "part_003"
    /\ Handled
    /\ ULt(duration, SHORT_PULSE_FILTER_US)
    /\ code = NO_CODE
    /\ prevPulse = PULSE_ON
    /\ g_bitIndex > 0
    /\ g_bitIndex = pre.g_bitIndex

\* C30: in every reachable state, prevPulse = PULSE_NOISE implies that the
\* buffer is empty (g_bitIndex = 0).
C30_NoiseImpliesEmptyBuffer ==
    prevPulse = PULSE_NOISE => g_bitIndex = 0

\* a Noise event arrived on a buffer that held symbols and emptied it
C30_Witness ==
    /\ Handled
    /\ code = PULSE_NOISE
    /\ prevPulse = PULSE_NOISE
    /\ pre.g_bitIndex > 0
    /\ pre.prevPulse # PULSE_NOISE
    /\ g_bitIndex = 0

\* the Off symbols of the (On, Off) pairs a script sends before its first
\* Noise event
LeadingSymbols(a) ==
    IF a.burst = <<>> THEN Transmission(Flipped(a)) ELSE a.burst

\* C31: after n (On, Off) pairs sent right after a Noise event, with no
\* Noise event among them, the buffer holds n mod 129 symbols; while the
\* count is not a multiple of 129 the last symbol stored, and prevPulse, is
\* the Off symbol of the n-th pair; the 129th Off symbol leaves the buffer
\* empty, is not stored, and leaves prevPulse On; the 130th is stored at
\* index 0.
C31_LengthIsPairsMod129 ==
    (tapeId = 1 /\ tapePos <= 2 * Len(LeadingSymbols(arg)) /\ tapePos % 2 = 0) =>
        LET n == tapePos \div 2
            m == n % (MAX_BIT_COUNT + 1)
        IN  /\ g_bitIndex = m
            /\ (n > 0 /\ m > 0) =>
                  /\ g_bitBuffer[m - 1] = LeadingSymbols(arg)[n]
                  /\ prevPulse = LeadingSymbols(arg)[n]
            /\ (n > 0 /\ m = 0) =>
                  /\ prevPulse = PULSE_ON
                  /\ code = LeadingSymbols(arg)[n]
                  /\ pre.g_bitIndex = MAX_BIT_COUNT

\* the 130th Off symbol of a burst has been stored at index 0 of the buffer
\* the 129th had emptied
C31_Witness ==
    /\ ScriptAt(2 * (MAX_BIT_COUNT + 2))
    /\ variant = "decoder"
    /\ arg.burst = Repeat(PULSE_LONG_OFF, BurstPairs)
    /\ g_bitIndex = 1
    /\ g_bitBuffer[0] = PULSE_LONG_OFF
    /\ pre.g_bitIndex = 0
    /\ pre.prevPulse = PULSE_ON

\* ---------------------------------------------------------------------
\* The noise branch on a buffer that holds symbols in front of a
\* checksum-valid transmission: scanForPreamble returns the lowest match
\* and processSequence is called once, for that match.
\* ---------------------------------------------------------------------

\* every sequence of Off symbols up to this length is tried as the lead
MaxLeadAll == 8

\* the most symbols the buffer can hold in front of a transmission
LeadRoom == MAX_BIT_COUNT - (4 + (8 * EXPECTED_DATA_LEN))

Leads ==
    SymSeqs(MaxLeadAll) \cup
    {Repeat(s, k) : s \in Offs, k \in (MaxLeadAll + 1)..LeadRoom} \cup
    {Repeat(s, k) \o PREAMBLE_SEQ : s \in Offs, k \in 1..(LeadRoom - PREAMBLE_LEN)} \cup
    {PREAMBLE_SEQ \o Repeat(s, k) : s \in Offs, k \in 1..(LeadRoom - PREAMBLE_LEN)} \cup
    {Transmission(f) \o Repeat(s, k) : f \in {FrameB}, s \in Offs, k \in 0..8}

InitLead ==
    /\ variant \in Versions
    /\ duration = <<0, 0>>
    /\ lastTime = U64(0)
    /\ \E lead \in Leads, f \in ValidFrames :
        /\ arg = [lead |-> lead, bytes |-> f]
        /\ g_bitBuffer = BufferOf(lead \o Transmission(f))
        /\ g_bitIndex = Len(lead) + Len(Transmission(f))
        /\ prevPulse = Transmission(f)[Len(Transmission(f))]
    /\ file = NoFile
    /\ ev = [highLow |-> 0, timeMicros |-> U64(0)]
    /\ code = NO_CODE
    /\ emitted = <<>>
    /\ pre = [prevPulse |-> PULSE_NOISE, g_bitIndex |-> 0, hist |-> <<>>]
    /\ hist = <<>>
    /\ tapeId = 0
    /\ tapePos = 0
    /\ ntapes = 0
    /\ pc = "check"
    /\ g_keepRunning = 1
    /\ active = 0
    /\ queued = 0
    /\ eintr = 0
    /\ released = 0
    /\ closed = 0
    /\ afterSignal = 0
    /\ ret = <<>>

SpecLead == InitLead /\ [][NextSeq]_vars

\* the offsets of syms at which PREAMBLE_SEQ occurs, counted from 0
Occurrences(syms) ==
    {i \in 0..(Len(syms) - PREAMBLE_LEN) :
        \A j \in 1..PREAMBLE_LEN : syms[i + j] = PREAMBLE_SEQ[j]}

OtherOff(sym) == IF sym = PULSE_SHORT_OFF THEN PULSE_LONG_OFF ELSE PULSE_SHORT_OFF

\* syms with the symbol at position p (from 1) replaced; p = 0 replaces none
FlipAt(syms, p) == [k \in 1..Len(syms) |-> IF k = p THEN OtherOff(syms[k]) ELSE syms[k]]

\* data bytes of the frames corrupted: the corners of each byte, and bytes
\* that hold the preamble pattern a second time
FlipData ==
    {<<64 + x, y, z, w>> : x \in {0, 15}, y \in {0, 255}, z \in {0, 255}, w \in {0, 255}}
    \cup {<<74, 244, 244, 244>>, <<79, 74, 10, 90>>, <<79, 79, 79, 79>>}

FlipFrames == ValidFrames \cup {WithCrc(d) : d \in FlipData}

InitFlip ==
    /\ variant \in Versions
    /\ duration = <<0, 0>>
    /\ lastTime = U64(0)
    /\ \E f \in FlipFrames : \E p \in 0..Len(Transmission(f)) :
        /\ arg = [bytes |-> f, pos |-> p]
        /\ g_bitBuffer = BufferOf(FlipAt(Transmission(f), p))
        /\ g_bitIndex = Len(Transmission(f))
        /\ prevPulse = FlipAt(Transmission(f), p)[Len(Transmission(f))]
    /\ file = NoFile
    /\ ev = [highLow |-> 0, timeMicros |-> U64(0)]
    /\ code = NO_CODE
    /\ emitted = <<>>
    /\ pre = [prevPulse |-> PULSE_NOISE, g_bitIndex |-> 0, hist |-> <<>>]
    /\ hist = <<>>
    /\ tapeId = 0
    /\ tapePos = 0
    /\ ntapes = 0
    /\ pc = "check"
    /\ g_keepRunning = 1
    /\ active = 0
    /\ queued = 0
    /\ eintr = 0
    /\ released = 0
    /\ closed = 0
    /\ afterSignal = 0
    /\ ret = <<>>

SpecFlip == InitFlip /\ [][NextSeq]_vars

\* C33: a 44-symbol transmission that decodes to a Reading gives no Reading,
\* and leaves the file alone, once any one of its 44 symbols (preamble,
\* data or checksum) is replaced by the other Off symbol.
C33_SingleSymbolCorruptionDetected ==
    tapePos = 1 =>
        /\ arg.pos = 0 => emitted = <<decodeFields(DataOf(arg.bytes))>>
        /\ arg.pos # 0 => emitted = <<>> /\ file = NoFile

\* the last data symbol in front of the checksum was replaced, the preamble
\* was still found at offset 0, and nothing was emitted
C33_Witness ==
    /\ tapePos = 1
    /\ arg.bytes = FramePos
    /\ arg.pos = 36
    /\ ret.preambleIdx = 0
    /\ g_bitIndex = 44
    /\ emitted = <<>>

\* ---------------------------------------------------------------------
\* The indices of g_bitBuffer that scanForPreamble and processSequence
\* read, and the noise branch on a buffer whose slots from g_bitIndex on
\* still hold the symbols of an earlier run (g_bitIndex = 0 clears the
\* count, not the array).
\* ---------------------------------------------------------------------

\* the smaller of two numbers
Least(a, b) == IF a < b THEN a ELSE b

\* decoder.c, piook.c: for(; j < PREAMBLE_LEN && g_bitBuffer[j + i] == preambleSeq[j]; j++)
\* reads g_bitBuffer[i + j] up to the first mismatch
matchReads_decoder(buf, i) ==
    {i + j : j \in 0..Least(matchLoop_decoder(buf, i, 0), PREAMBLE_LEN - 1)}

\* part_003: the quick check reads g_bitBuffer[i], the inner loop
\* g_bitBuffer[i + j] up to the first mismatch
matchReads_part003(buf, i) ==
    IF buf[i] # PREAMBLE_SEQ[1] THEN {i}
    ELSE {i + j : j \in 0..Least(matchLoop_part003(buf, i, 1), PREAMBLE_LEN - 1)}

\* the indices scanForPreamble reads: the offsets it tries are those up to
\* the one it returns, or all of its loop when it finds nothing
scanReads(v, buf, idx) ==
    LET found == IF v = "piook" THEN scanForPreamble_piook(buf, idx)
                 ELSE scanForPreamble(v, buf, idx)
        last == IF found # SIZE_MAX THEN found
                ELSE IF v = "part_003" THEN idx - PREAMBLE_LEN
                ELSE idx - PREAMBLE_LEN - 1
    IN  IF idx < PREAMBLE_LEN THEN {}
        ELSE UNION {IF v = "part_003" THEN matchReads_part003(buf, i)
                    ELSE matchReads_decoder(buf, i) : i \in 0..last}

\* the indices processSequence(preambleIdx) reads: 8 per byte, dataLen
\* bytes, once the length tests have passed
sequenceReads(v, idx, preambleIdx) ==
    LET bitLen == idx - preambleIdx
    IN  IF (v # "piook" /\ bitLen % 8 # 0) \/ CDiv(bitLen, 8) # EXPECTED_DATA_LEN
        THEN {}
        ELSE {preambleIdx + k : k \in 0..((8 * EXPECTED_DATA_LEN) - 1)}

\* every index the noise branch reads
noiseReads(v, buf, idx) ==
    LET found == IF v = "piook" THEN scanForPreamble_piook(buf, idx)
                 ELSE scanForPreamble(v, buf, idx)
    IN  scanReads(v, buf, idx) \cup
        (IF found = SIZE_MAX THEN {} ELSE sequenceReads(v, idx, found + 4))

\* what the array holds: a pulse train, or any 9 Off symbols
StaleTrains == PulseTrains \cup [1..(PREAMBLE_LEN + 1) -> Offs]

InitStale ==
    /\ variant \in Versions
    /\ duration = <<0, 0>>
    /\ lastTime = U64(0)
    /\ \E full \in StaleTrains : \E n \in 1..Len(full) :
        /\ arg = [full |-> full, n |-> n]
        /\ g_bitBuffer = BufferOf(full)
        /\ g_bitIndex = n
        /\ prevPulse = full[n]
    /\ file = NoFile
    /\ ev = [highLow |-> 0, timeMicros |-> U64(0)]
    /\ code = NO_CODE
    /\ emitted = <<>>
    /\ pre = [prevPulse |-> PULSE_NOISE, g_bitIndex |-> 0, hist |-> <<>>]
    /\ hist = <<>>
    /\ tapeId = 0
    /\ tapePos = 0
    /\ ntapes = 0
    /\ pc = "check"
    /\ g_keepRunning = 1
    /\ active = 0
    /\ queued = 0
    /\ eintr = 0
    /\ released = 0
    /\ closed = 0
    /\ afterSignal = 0
    /\ ret = <<>>

SpecStale == InitStale /\ [][NextSeq]_vars

\* the array with every slot from g_bitIndex on cleared
LiveOnly == BufferOf(SubSeq(arg.full, 1, arg.n))

\* C34: the scan and processSequence read only indices below g_bitIndex; a
\* match index i returned by the scan has i + 8 <= g_bitIndex, so the count
\* from the start index i + 4 is positive; and the match index and the
\* Readings are what they would be with every slot from g_bitIndex on
\* cleared.
C34_ReadsBelowBitIndex ==
    tapePos = 1 =>
        /\ noiseReads(variant, g_bitBuffer, g_bitIndex) \subseteq 0..(g_bitIndex - 1)
        /\ ret.preambleIdx # SIZE_MAX =>
              /\ ret.preambleIdx >= 0
              /\ ret.preambleIdx + PREAMBLE_LEN <= g_bitIndex
              /\ g_bitIndex - (ret.preambleIdx + 4) > 0
        /\ LET clean == scanAndProcess(variant, LiveOnly, g_bitIndex, TRUE, NoFile)
           IN  /\ ret.preambleIdx = clean.preambleIdx
               /\ emitted = clean.emitted

\* only the first 43 symbols of a transmission are counted, the 44th is
\* still in the array behind them, and nothing was decoded
C34_Witness ==
    /\ tapePos = 1
    /\ arg.full \in PulseTrains
    /\ SubSeq(arg.full, 1, 44) = Transmission(FrameA)
    /\ g_bitIndex = 43
    /\ g_bitBuffer[43] # 0
    /\ ret.preambleIdx = 0
    /\ emitted = <<>>

\* main runs on: each of its own steps is taken when it can be, and the wait
\* returns once an edge event is queued or a signal handler has run during
\* it.  Nothing obliges the line to change level, a signal to arrive, or the
\* wait to fail for another reason.
SpecMainFair ==
    /\ SpecMain
    /\ WF_vars(MainCheck)
    /\ WF_vars(MainWaitCall)
    /\ WF_vars(MainWait)
    /\ WF_vars(MainRead)
    /\ WF_vars(MainHandle)
    /\ WF_vars(MainRelease)
    /\ WF_vars(MainClose)

\* at most one event is passed to handleEvent after g_keepRunning became 0
AtMostOneFurtherEvent == afterSignal <= 1

\* the line is released and the chip closed at most once, and both exactly
\* once when main has returned
CleanupExactlyOnce ==
    /\ released <= 1
    /\ closed <= 1
    /\ pc = "done" => released = 1 /\ closed = 1

\* a step in which signalHandler runs changes nothing of the program but
\* g_keepRunning
HandlerSetsOnlyFlag ==
    [][ g_keepRunning' # g_keepRunning =>
           /\ g_keepRunning' = 0
           /\ UNCHANGED <<decoderVars, pc, active, queued, released, closed>>
      ]_vars

\* once g_keepRunning is 0, main leaves the loop and returns
LeavesLoop == (g_keepRunning = 0) ~> (pc = "done")

\* C35: once a signal has set g_keepRunning to 0, the loop passes at most
\* one further event to handleEvent and then leaves; on leaving, the line
\* is released and the chip closed exactly once; the handler changes
\* nothing but g_keepRunning.
C35_GracefulShutdown ==
    /\ []AtMostOneFurtherEvent
    /\ []CleanupExactlyOnce
    /\ HandlerSetsOnlyFlag
    /\ LeavesLoop

\* ---------------------------------------------------------------------
\* The work of one call of handleEvent.  Only the noise branch loops: the
\* scan, the assembler of processSequence and crc8.  Each operator below
\* counts the passes of one loop of the code.
\* ---------------------------------------------------------------------

\* decoder.c, piook.c: evaluations of g_bitBuffer[j + i] == preambleSeq[j] at
\* offset i: one per matching element and one for the first mismatch
matchCount_decoder(buf, i) == Least(matchLoop_decoder(buf, i, 0) + 1, PREAMBLE_LEN)

\* part_003 with the first element compared twice at every offset
matchCount_part003_twice(buf, i) ==
    IF buf[i] # PREAMBLE_SEQ[1] THEN 1
    ELSE 1 + Least(matchLoop_part003(buf, i, 0) + 1, PREAMBLE_LEN)

\* part_003: the quick check, then the inner loop from j = 1
matchCount_part003(buf, i) ==
    IF buf[i] # PREAMBLE_SEQ[1] THEN 1
    ELSE 1 + Least(matchLoop_part003(buf, i, 1), PREAMBLE_LEN - 1)

\* comparisons of one call of scanForPreamble
scanComparisons(v, buf, idx) ==
    LET found == IF v = "piook" THEN scanForPreamble_piook(buf, idx)
                 ELSE scanForPreamble(v, buf, idx)
        last == IF found # SIZE_MAX THEN found
                ELSE IF v = "part_003" THEN idx - PREAMBLE_LEN
                ELSE idx - PREAMBLE_LEN - 1
    IN  IF idx < PREAMBLE_LEN THEN 0
        ELSE Cardinality({<<i, c>> \in (0..last) \X (1..(2 * PREAMBLE_LEN)) :
                             c <= IF v = "part_003" THEN matchCount_part003(buf, i)
                                  ELSE matchCount_decoder(buf, i)})

\* for(i < dataLen) for(j < 8): symbols read by the assembler
RECURSIVE assembleSteps(_, _)
assembleSteps(dataLen, i) ==
    IF i < dataLen THEN 8 + assembleSteps(dataLen, i + 1) ELSE 0

\* while (len--) for (i = 8; i; i--): bit steps of crc8
RECURSIVE crcSteps(_)
crcSteps(len) == IF len # 0 THEN 8 + crcSteps(len - 1) ELSE 0

\* whether processSequence(preambleIdx) gets past its length tests
passesLengthTests(v, idx, preambleIdx) ==
    LET bitLen == idx - preambleIdx
    IN  (v = "piook" \/ bitLen % 8 = 0) /\ CDiv(bitLen, 8) = EXPECTED_DATA_LEN

\* the passes of each loop in one run of the noise branch
noiseSteps(v, buf, idx) ==
    LET found == IF v = "piook" THEN scanForPreamble_piook(buf, idx)
                 ELSE scanForPreamble(v, buf, idx)
        ran == found # SIZE_MAX /\ passesLengthTests(v, idx, found + 4)
    IN  [comparisons |-> scanComparisons(v, buf, idx),
         symbolReads |-> IF ran THEN assembleSteps(CDiv(idx - (found + 4), 8), 0) ELSE 0,
         bitSteps |-> IF ran THEN crcSteps(4) ELSE 0,
         ran |-> ran]

====
